---- MODULE Spec2Model ----
(***************************************************************************)
(* Search-index construction scripts of the documentation site:            *)
(*   utils/postprocess-search-index.js  (index-patch, candidate dirs)      *)
(*   route-filtering index-patch variant, docs/dist-only index-patch       *)
(*   variant, and the JSON-array builder;                                  *)
(* and the other scripts of the repository:                                *)
(*   .github/scripts/process-images.js  (image upload),                    *)
(*   docs/public/enhanced-theme.js      (theme class and redirects),       *)
(*   the MermaidRenderer components.                                       *)
(* Strings are sequences of one-character strings, so that the regular     *)
(* expressions of the scripts are modelled by what they do to the text.    *)
(***************************************************************************)
EXTENDS Integers, Sequences, FiniteSets, TLC

VARIABLES
    \* ---- computeHref applied to one file path
    hrefPath,          \* path segments of the file below docs/pages
    hrefOut,           \* result of computeHref
    hrefPc,            \* "in" | "done"
    \* ---- extractSectionsFromMdx applied to one document body
    exBody,            \* the body (content returned by matter), a string
    exOut,             \* result of extractSectionsFromMdx
    exPc,              \* "in" | "done"
    \* ---- slugify applied to one title, then again
    slugIn,            \* the title
    slugOut,           \* slugify(title)
    slugRepeat,        \* slugify(title), called a second time
    slugOfSlug,        \* slugify applied to its own result
    slugPc,            \* "in" | "once" | "done"
    \* ---- the file collectors applied to one directory tree
    colTree,           \* entries of the root directory, in readdir order
    colWalk,           \* result of walkFiles
    colGet,            \* result of getMarkdownFiles
    colDone,           \* the collectors that have run
    \* ---- the JSON-array script applied to one document
    jsFile,            \* the document: path, front-matter title, body
    jsSections,        \* result of splitByHeadings
    jsRecords,         \* records buildIndex pushes for the document
    jsPc,              \* "in" | "split" | "done"
    \* ---- one run of a script: the file system it finds
    variant,           \* which script runs: "patch" | "filter" | "dist" | "json"
    cwd,               \* process.cwd(): "/vercel/path0" | "elsewhere"
    listing,           \* candidate .vocs directory -> what existsSync/readdirSync find
    tree,              \* entries of the documents directory, in readdir order
    staticDir,         \* .vercel/output/static: <<>> when absent, else <<its entries>>
    vocsConfig,        \* vocs.config.ts: <<>> when absent, else <<its text>>
    \* ---- one run of a script: the state of main / run
    pc,                \* position in main
    baseDirForIndex,   \* candidate directory holding the index, "" while undefined
    fileName,          \* name of the index file, <<>> while undefined
    payloadTargets,    \* [dir, name] of every file to write
    files,             \* result of walkFiles / getMarkdownFiles
    fileIdx,           \* 1-based position of the for-of loop over files
    documents,         \* records built so far (documents / records array)
    allowedRoutes,     \* <<>> for undefined, else <<set of routes>>
    filteredDocuments, \* records handed to MiniSearch
    writes,            \* writeFileSync calls done, in order: [dir, name, payload]
    reads,             \* number of readFileSync calls on documents
    readError,         \* a readFileSync on a document has thrown
    exitCode,          \* -1 while running, else the process exit code
    \* ---- one run of process-images.js
    imgFile,           \* urls.json: kind "missing" | "notArray" | "array" with its urls
    imgUrls,           \* urls of main, <<>> before the file is read
    imgIdx,            \* 1-based position of main's loop over urls
    imgPc,             \* position in main / processImage
    imgDirectUrl,      \* directUrl of processImage, <<>> while unset, else <<url>>
    imgBuffer,         \* buffer of processImage, <<>> while unset, else <<buffer>>
    imgMetadata,       \* metadata of processImage, <<>> while unset, else <<metadata>>
    imgDownloads,      \* axios requests done, in order: [idx, url, buffer]
    imgUploads,        \* S3 uploads started, in order: [idx, url, buffer]
    imgResults,        \* results of main
    imgPrinted,        \* what main printed after RESULTS:, <<>> before
    \* ---- one page load with enhanced-theme.js, and its reloads
    storedTheme,       \* localStorage vocs.theme: <<>> for null, else <<string>>
    prefersDark,       \* matches of (prefers-color-scheme: dark)
    htmlClasses,       \* theme classes the page ships on its root element
    classList,         \* theme classes of document.documentElement
    listener,          \* the change listener is registered
    scriptRan,         \* the script has run in the current page
    classAtLoad,       \* classList right after applyTheme ran
    pathname,          \* window.location.pathname
    firstPathname,     \* the pathname of the first load
    redirectCount,     \* redirects done since the first load
    pagePc,            \* "load" | "waitDom" | "ready"
    \* ---- one mounted MermaidRenderer
    mmVariant,         \* "state" (with isLoading / error) | "plain"
    code,              \* the code prop
    isInitialized,     \* state isInitialized
    isLoading,         \* state isLoading
    error,             \* state error: <<>> for null, else <<message>>
    innerHTML,         \* content of the container
    pendingRenders,    \* mermaid.render promises not yet settled: [n, code]
    effectRuns         \* runs of the rendering effect so far

hrefVars == <<hrefPath, hrefOut, hrefPc>>
exVars == <<exBody, exOut, exPc>>
fsVars == <<variant, cwd, listing, tree, staticDir, vocsConfig>>
runVars == <<pc, baseDirForIndex, fileName, payloadTargets, files, fileIdx, documents,
             allowedRoutes, filteredDocuments, writes, reads, readError, exitCode>>
slugVars == <<slugIn, slugOut, slugRepeat, slugOfSlug, slugPc>>
colVars == <<colTree, colWalk, colGet, colDone>>
jsonVars == <<jsFile, jsSections, jsRecords, jsPc>>
imgVars == <<imgFile, imgUrls, imgIdx, imgPc, imgDirectUrl, imgBuffer, imgMetadata,
             imgDownloads, imgUploads, imgResults, imgPrinted>>
pageVars == <<storedTheme, prefersDark, htmlClasses, classList, listener, scriptRan,
              classAtLoad, pathname, firstPathname, redirectCount, pagePc>>
mmVars == <<mmVariant, code, isInitialized, isLoading, error, innerHTML,
            pendingRenders, effectRuns>>
otherVars == <<imgVars, pageVars, mmVars>>
fnVars == <<slugVars, colVars, jsonVars, otherVars>>
vars == <<hrefVars, exVars, fnVars, fsVars, runVars>>

\* the parts of the state a specification does not use stay idle
HrefIdle ==
    /\ hrefPath = <<>>
    /\ hrefOut = <<>>
    /\ hrefPc = "idle"

ExIdle ==
    /\ exBody = <<>>
    /\ exOut = <<>>
    /\ exPc = "idle"

SlugIdle ==
    /\ slugIn = <<>>
    /\ slugOut = <<>>
    /\ slugRepeat = <<>>
    /\ slugOfSlug = <<>>
    /\ slugPc = "idle"

ColIdle ==
    /\ colTree = <<>>
    /\ colWalk = <<>>
    /\ colGet = <<>>
    /\ colDone = {}

JsonIdle ==
    /\ jsFile = <<>>
    /\ jsSections = <<>>
    /\ jsRecords = <<>>
    /\ jsPc = "idle"

ImgIdle ==
    /\ imgFile = [kind |-> "none"]
    /\ imgUrls = <<>>
    /\ imgIdx = 0
    /\ imgPc = "idle"
    /\ imgDirectUrl = <<>>
    /\ imgBuffer = <<>>
    /\ imgMetadata = <<>>
    /\ imgDownloads = <<>>
    /\ imgUploads = <<>>
    /\ imgResults = <<>>
    /\ imgPrinted = <<>>

PageIdle ==
    /\ storedTheme = <<>>
    /\ prefersDark = FALSE
    /\ htmlClasses = {}
    /\ classList = {}
    /\ listener = FALSE
    /\ scriptRan = FALSE
    /\ classAtLoad = {}
    /\ pathname = <<>>
    /\ firstPathname = <<>>
    /\ redirectCount = 0
    /\ pagePc = "idle"

MmIdle ==
    /\ mmVariant = "none"
    /\ code = <<>>
    /\ isInitialized = FALSE
    /\ isLoading = FALSE
    /\ error = <<>>
    /\ innerHTML = [kind |-> "empty", text |-> "", code |-> <<>>]
    /\ pendingRenders = {}
    /\ effectRuns = 0

OtherIdle == ImgIdle /\ PageIdle /\ MmIdle

FnIdle == SlugIdle /\ ColIdle /\ JsonIdle /\ OtherIdle

RunIdle ==
    /\ variant = "none"
    /\ cwd = "none"
    /\ listing = <<>>
    /\ tree = <<>>
    /\ staticDir = <<>>
    /\ vocsConfig = <<>>
    /\ pc = "idle"
    /\ baseDirForIndex = ""
    /\ fileName = <<>>
    /\ payloadTargets = <<>>
    /\ files = <<>>
    /\ fileIdx = 1
    /\ documents = <<>>
    /\ allowedRoutes = <<>>
    /\ filteredDocuments = <<>>
    /\ writes = <<>>
    /\ reads = 0
    /\ readError = FALSE
    /\ exitCode = -1


(***************************************************************************)
(* Strings                                                                 *)
(***************************************************************************)
UpperLetters == <<"A","B","C","D","E","F","G","H","I","J","K","L","M",
                  "N","O","P","Q","R","S","T","U","V","W","X","Y","Z">>
LowerLetters == <<"a","b","c","d","e","f","g","h","i","j","k","l","m",
                  "n","o","p","q","r","s","t","u","v","w","x","y","z">>
Digits == <<"0","1","2","3","4","5","6","7","8","9">>

Range(s) == {s[i] : i \in DOMAIN s}

\* String.prototype.toLowerCase, one character
LowerChar(c) ==
    IF c \in Range(UpperLetters)
    THEN LowerLetters[CHOOSE i \in DOMAIN UpperLetters : UpperLetters[i] = c]
    ELSE c

\* String.prototype.toLowerCase
ToLowerCase(s) == [i \in DOMAIN s |-> LowerChar(s[i])]

\* the characters the regular expression class \s matches
IsSpace(c) == c \in {" ", "\t", "\n", "\r"}

\* the characters the regular expression . does not match
IsLineTerminator(c) == c \in {"\n", "\r"}

\* s ends with suffix t
EndsWith(s, t) ==
    /\ Len(s) >= Len(t)
    /\ SubSeq(s, Len(s) - Len(t) + 1, Len(s)) = t

\* s starts with prefix t
StartsWith(s, t) ==
    /\ Len(s) >= Len(t)
    /\ SubSeq(s, 1, Len(t)) = t

DropLast(s, n) == SubSeq(s, 1, Len(s) - n)
DropFirst(s, n) == SubSeq(s, n + 1, Len(s))

\* Array.prototype.join
RECURSIVE Join(_, _)
Join(parts, sep) ==
    IF Len(parts) = 0 THEN <<>>
    ELSE IF Len(parts) = 1 THEN parts[1]
    ELSE parts[1] \o sep \o Join(Tail(parts), sep)

\* String.prototype.trim
RECURSIVE TrimStart(_)
TrimStart(s) ==
    IF Len(s) > 0 /\ IsSpace(s[1]) THEN TrimStart(Tail(s)) ELSE s

RECURSIVE TrimEnd(_)
TrimEnd(s) ==
    IF Len(s) > 0 /\ IsSpace(s[Len(s)]) THEN TrimEnd(DropLast(s, 1)) ELSE s

Trim(s) == TrimEnd(TrimStart(s))

\* decimal digits of a natural number, as template literals print it
RECURSIVE NatToString(_)
NatToString(n) ==
    IF n < 10 THEN <<Digits[n + 1]>>
    ELSE NatToString(n \div 10) \o <<Digits[(n % 10) + 1]>>

SeqsUpTo(S, n) == UNION {[1..k -> S] : k \in 0..n}

(***************************************************************************)
(* computeHref                                                             *)
(***************************************************************************)
sMd == <<".", "m", "d">>
sMdx == <<".", "m", "d", "x">>
sSlashIndex == <<"/", "i", "n", "d", "e", "x">>
sIndex == <<"i", "n", "d", "e", "x">>
sIndexMdx == sIndex \o sMdx
sIndexMd == sIndex \o sMd

\* path.relative(pagesDir, filePath) followed by normalizeSlashes: the
\* segments below docs/pages joined with '/'
normalizeSlashes(p) == Join(p, <<"/">>)

\* str.replace(/\.(md|mdx)$/i, '')
StripMdExt(s) ==
    IF EndsWith(ToLowerCase(s), sMd) THEN DropLast(s, 3)
    ELSE IF EndsWith(ToLowerCase(s), sMdx) THEN DropLast(s, 4)
    ELSE s

\* str.replace(/\/index$/i, '')
StripIndex(s) ==
    IF EndsWith(ToLowerCase(s), sSlashIndex) THEN DropLast(s, 6) ELSE s

\* a slip that drops the '/' of the pattern: /index$/i
computeHref_anyIndexSuffix(filePath) ==
    LET withoutExt == StripMdExt(normalizeSlashes(filePath))
        noIndex == IF EndsWith(ToLowerCase(withoutExt), Tail(sSlashIndex))
                   THEN DropLast(withoutExt, 5) ELSE withoutExt
    IN  <<"/">> \o noIndex

computeHref(filePath) ==
    LET relFromPages == normalizeSlashes(filePath)
        withoutExt == StripMdExt(relFromPages)
        noIndex == StripIndex(withoutExt)
    IN  <<"/">> \o noIndex

(***************************************************************************)
(* slugify                                                                 *)
(***************************************************************************)
\* .replace(/&/g, 'and')
RECURSIVE ReplaceAmp(_)
ReplaceAmp(s) ==
    IF Len(s) = 0 THEN <<>>
    ELSE (IF s[1] = "&" THEN <<"a", "n", "d">> ELSE <<s[1]>>) \o ReplaceAmp(Tail(s))

IsSlugChar(c) ==
    \/ c \in Range(LowerLetters)
    \/ c \in Range(Digits)
    \/ IsSpace(c)
    \/ c = "-"

\* .replace(/[^a-z0-9\s\-]/g, '')
RECURSIVE KeepSlugChars(_)
KeepSlugChars(s) ==
    IF Len(s) = 0 THEN <<>>
    ELSE (IF IsSlugChar(s[1]) THEN <<s[1]>> ELSE <<>>) \o KeepSlugChars(Tail(s))

\* .replace(/\s+/g, '-'): every maximal run of whitespace becomes one '-'
RECURSIVE SpacesToHyphen(_)
SpacesToHyphen(s) ==
    IF Len(s) = 0 THEN <<>>
    ELSE IF IsSpace(s[1])
         THEN <<"-">> \o SpacesToHyphen(TrimStart(s))
         ELSE <<s[1]>> \o SpacesToHyphen(Tail(s))

\* .replace(/\-+/g, '-'): every maximal run of '-' becomes one '-'
RECURSIVE CollapseHyphens(_)
CollapseHyphens(s) ==
    IF Len(s) = 0 THEN <<>>
    ELSE IF s[1] = "-" /\ Len(s) > 1 /\ s[2] = "-"
         THEN CollapseHyphens(Tail(s))
         ELSE <<s[1]>> \o CollapseHyphens(Tail(s))

\* .replace(/^\-|\-$/g, ''): one leading and one trailing '-' are removed
TrimHyphens(s) ==
    LET a == IF Len(s) > 0 /\ s[1] = "-" THEN Tail(s) ELSE s
    IN  IF Len(a) > 0 /\ a[Len(a)] = "-" THEN DropLast(a, 1) ELSE a

\* a slip that leaves out the collapse of repeated hyphens
slugify_noCollapse(input) ==
    TrimHyphens(SpacesToHyphen(KeepSlugChars(ReplaceAmp(ToLowerCase(Trim(input))))))

slugify(input) ==
    TrimHyphens(CollapseHyphens(SpacesToHyphen(KeepSlugChars(
        ReplaceAmp(ToLowerCase(Trim(input)))))))

(***************************************************************************)
(* removeFences and the tag removal of extractSectionsFromMdx              *)
(***************************************************************************)
\* str.replace(/^MMM.*$/gm, '') for a three-character marker MMM: with the m
\* flag every line (ended by a line terminator) that starts with the marker
\* loses its characters; the line terminators stay
RECURSIVE BlankMarkedLines(_, _, _)
BlankMarkedLines(s, marker, atLineStart) ==
    IF Len(s) = 0 THEN <<>>
    ELSE IF IsLineTerminator(s[1])
         THEN <<s[1]>> \o BlankMarkedLines(Tail(s), marker, TRUE)
    ELSE IF atLineStart /\ StartsWith(s, marker)
         THEN LET rest == SelectSeq([i \in 1..Len(s) |-> i], LAMBDA i : IsLineTerminator(s[i]))
              IN  IF Len(rest) = 0 THEN <<>>
                  ELSE BlankMarkedLines(DropFirst(s, rest[1] - 1), marker, FALSE)
    ELSE <<s[1]>> \o BlankMarkedLines(Tail(s), marker, FALSE)

\* the character U+0060 (a TLA+ string cannot hold it)
Backtick == "backtick"
sBackticks == <<Backtick, Backtick, Backtick>>
sTildes == <<"~", "~", "~">>

removeFences(str) ==
    BlankMarkedLines(BlankMarkedLines(str, sBackticks, TRUE), sTildes, TRUE)

\* .replace(/<[^>]*>/g, ''): from each '<' that has a later '>', the text up
\* to and including the nearest '>' is removed
RECURSIVE StripTags(_)
StripTags(s) ==
    IF Len(s) = 0 THEN <<>>
    ELSE IF s[1] = "<" /\ \E i \in 2..Len(s) : s[i] = ">"
         THEN LET close == CHOOSE i \in 2..Len(s) :
                              s[i] = ">" /\ \A j \in 2..(i - 1) : s[j] # ">"
              IN  StripTags(DropFirst(s, close))
         ELSE <<s[1]>> \o StripTags(Tail(s))

(***************************************************************************)
(* extractSectionsFromMdx                                                  *)
(***************************************************************************)
\* content.split(/\r?\n/)
RECURSIVE SplitLinesFrom(_, _, _)
SplitLinesFrom(s, cur, acc) ==
    IF Len(s) = 0 THEN Append(acc, cur)
    ELSE IF s[1] = "\n"
         THEN SplitLinesFrom(Tail(s), <<>>,
                  Append(acc, IF Len(cur) > 0 /\ cur[Len(cur)] = "\r"
                              THEN DropLast(cur, 1) ELSE cur))
         ELSE SplitLinesFrom(Tail(s), Append(cur, s[1]), acc)

SplitLines(content) == SplitLinesFrom(content, <<>>, <<>>)

\* number of leading '#' of a line
RECURSIVE LeadingHashes(_)
LeadingHashes(line) ==
    IF Len(line) > 0 /\ line[1] = "#" THEN 1 + LeadingHashes(Tail(line)) ELSE 0

\* /^(#{1,6})\s+(.*)$/.exec(line): 1 to 6 '#', then whitespace, then a rest
\* without line terminator up to the end of the line; m[1] is the run of
\* '#', m[2] the rest after the whole run of whitespace.  A rest that holds a
\* line terminator can still match when the whitespace run swallows it.
HeadingExec(line) ==
    LET h == LeadingHashes(line)
        afterHashes == DropFirst(line, h)
        rest == TrimStart(afterHashes)
        \* the shortest tail of afterHashes, after at least one whitespace
        \* character of an unbroken whitespace run, free of line terminators
        ok == /\ h >= 1 /\ h <= 6
              /\ Len(afterHashes) > 0 /\ IsSpace(afterHashes[1])
              /\ \A i \in DOMAIN rest : ~IsLineTerminator(rest[i])
    IN  [matched |-> ok, level |-> IF ok THEN h ELSE 0, rest |-> IF ok THEN rest ELSE <<>>]

\* an array slot that was never assigned (a hole), and an assigned slot
Hole == <<>>
Slot(v) == <<v>>

Min(a, b) == IF a < b THEN a ELSE b
Max(a, b) == IF a > b THEN a ELSE b

\* arr.slice(0, n) for n >= 0
SliceTo(arr, n) == SubSeq(arr, 1, Min(n, Len(arr)))

\* arr[idx] = v for a zero-based idx, growing the array with holes
AssignAt(arr, idx, v) ==
    [i \in 1..Max(Len(arr), idx + 1) |->
        IF i = idx + 1 THEN Slot(v)
        ELSE IF i <= Len(arr) THEN arr[i] ELSE Hole]

\* a slip that keeps the whole ancestor array instead of slice(0, level - 1)
ExtractStep_noTruncate(st, line) ==
    LET m == HeadingExec(line)
    IN  IF m.matched
        THEN LET level == m.level
                 title == Trim(m.rest)
                 titles == AssignAt(st.parentTitles, level - 1, title)
             IN  [sections |-> st.sections \o st.current,
                  parentTitles |-> titles,
                  current |-> << [level |-> level, title |-> title,
                                  anchor |-> slugify(title),
                                  titles |-> DropLast(titles, 1), chunks |-> <<>>] >>]
        ELSE IF st.current = <<>> THEN st
        ELSE [st EXCEPT !.current[1].chunks = Append(@, line)]

\* the loop body of extractSectionsFromMdx for one line; st.current is <<>>
\* for null, else a one-element sequence holding the open section
ExtractStep(st, line) ==
    LET m == HeadingExec(line)
    IN  IF m.matched
        THEN LET level == m.level
                 title == Trim(m.rest)
                 anchor == slugify(title)
                 titles == AssignAt(SliceTo(st.parentTitles, level - 1), level - 1, title)
             IN  [sections |-> st.sections \o st.current,
                  parentTitles |-> titles,
                  current |-> << [level |-> level, title |-> title, anchor |-> anchor,
                                  titles |-> DropLast(titles, 1), chunks |-> <<>>] >>]
        ELSE IF st.current = <<>> THEN st
        ELSE [st EXCEPT !.current[1].chunks = Append(@, line)]

RECURSIVE ExtractLoop(_, _)
ExtractLoop(st, lines) ==
    IF Len(lines) = 0 THEN st
    ELSE ExtractLoop(ExtractStep(st, lines[1]), Tail(lines))

\* the text of one collected section
SectionText(chunks) == Trim(StripTags(removeFences(Join(chunks, <<"\n">>))))

\* a slip that forgets the push of the last open section after the loop
extractSectionsFromMdx_noFinalPush(content) ==
    LET st == ExtractLoop([sections |-> <<>>, parentTitles |-> <<>>, current |-> <<>>],
                          SplitLines(content))
        sections == st.sections
    IN  [idx \in DOMAIN sections |->
            [anchor |-> sections[idx].anchor,
             title |-> sections[idx].title,
             titles |-> sections[idx].titles,
             isPage |-> (idx = 1),
             text |-> SectionText(sections[idx].chunks)]]

extractSectionsFromMdx(content) ==
    LET st == ExtractLoop([sections |-> <<>>, parentTitles |-> <<>>, current |-> <<>>],
                          SplitLines(content))
        sections == st.sections \o st.current
    IN  [idx \in DOMAIN sections |->
            [anchor |-> sections[idx].anchor,
             title |-> sections[idx].title,
             titles |-> sections[idx].titles,
             isPage |-> (idx = 1),
             text |-> SectionText(sections[idx].chunks)]]

(***************************************************************************)
(* walkFiles                                                               *)
(***************************************************************************)
\* a slip that forgets the mdx alternative of the pattern
IsMarkdownName_mdOnly(name) == EndsWith(ToLowerCase(name), sMd)

\* /\.(md|mdx)$/i.test(name)
IsMarkdownName(name) ==
    EndsWith(ToLowerCase(name), sMd) \/ EndsWith(ToLowerCase(name), sMdx)

\* walkFiles(dir, out): entries in readdir order, directories descended
\* into, files with a Markdown name pushed; dir is the path of the directory
\* below the documents root, as segments
RECURSIVE walkFiles(_, _, _)
walkFiles(dir, entries, out) ==
    IF Len(entries) = 0 THEN out
    ELSE LET entry == entries[1]
             p == Append(dir, entry.name)
             out2 == IF entry.isDirectory THEN walkFiles(p, entry.entries, out)
                     ELSE IF IsMarkdownName(entry.name)
                          THEN Append(out, [path |-> p, data |-> entry.data,
                                            content |-> entry.content])
                          ELSE out
         IN  walkFiles(dir, Tail(entries), out2)

(***************************************************************************)
(* Locating the index file                                                 *)
(***************************************************************************)
\* code-unit order of the characters used in file names
CharOrder == <<"\t", "\n", "\r", " ", "#", "&", "-", ".", "/">> \o Digits \o
             <<"<", ">">> \o UpperLetters \o <<Backtick>> \o LowerLetters \o <<"~">>

CharCode(c) == CHOOSE i \in DOMAIN CharOrder : CharOrder[i] = c

\* a < b in the order Array.prototype.sort uses without a comparator
RECURSIVE StrLess(_, _)
StrLess(a, b) ==
    IF Len(b) = 0 THEN FALSE
    ELSE IF Len(a) = 0 THEN TRUE
    ELSE IF a[1] = b[1] THEN StrLess(Tail(a), Tail(b))
    ELSE CharCode(a[1]) < CharCode(b[1])

\* insertion of x into a sorted array
RECURSIVE InsertSorted(_, _)
InsertSorted(x, arr) ==
    IF Len(arr) = 0 THEN <<x>>
    ELSE IF StrLess(x, arr[1]) THEN <<x>> \o arr
    ELSE <<arr[1]>> \o InsertSorted(x, Tail(arr))

\* Array.prototype.sort on strings
RECURSIVE SortStrings(_)
SortStrings(arr) ==
    IF Len(arr) = 0 THEN <<>> ELSE InsertSorted(arr[1], SortStrings(Tail(arr)))

sSearchIndexDash == <<"s", "e", "a", "r", "c", "h", "-", "i", "n", "d", "e", "x", "-">>
sDotJson == <<".", "j", "s", "o", "n">>

\* /^search-index-.*\.json$/i.test(f)
IsIndexFileName(f) ==
    /\ Len(f) >= Len(sSearchIndexDash) + Len(sDotJson)
    /\ StartsWith(ToLowerCase(f), sSearchIndexDash)
    /\ EndsWith(ToLowerCase(f), sDotJson)
    /\ \A i \in DOMAIN f : ~IsLineTerminator(f[i])

\* items.filter(...).sort()
IndexCandidates(items) == SortStrings(SelectSeq(items, IsIndexFileName))

\* the paths of the .vocs directories: docs/dist/.vocs and
\* .vercel/output/static/.vocs lie below process.cwd(), and the fixed path
\* /vercel/path0/docs/dist/.vocs is the same string as distVocsDir when the
\* script runs in /vercel/path0
distVocsDir == "distVocsDir"
vercelVocsDir == "vercelVocsDir"
vercelPath0DistVocsDir ==
    IF cwd = "/vercel/path0" THEN distVocsDir ELSE "vercelPath0DistVocsDir"

\* candidateDirs of main, in order: /vercel/path0/docs/dist/.vocs,
\* .vercel/output/static/.vocs, docs/dist/.vocs
candidateDirs == <<vercelPath0DistVocsDir, vercelVocsDir, distVocsDir>>

\* the for loop of main over the candidate directories from position i: a
\* missing directory and a directory whose listing throws are skipped
RECURSIVE LocateFrom(_, _)
LocateFrom(ls, i) ==
    IF i > Len(candidateDirs) THEN [found |-> FALSE, dir |-> "", name |-> <<>>]
    ELSE LET dir == candidateDirs[i]
         IN  IF ls[dir].state = "ok" /\ Len(IndexCandidates(ls[dir].items)) > 0
             THEN [found |-> TRUE, dir |-> dir, name |-> IndexCandidates(ls[dir].items)[1]]
             ELSE LocateFrom(ls, i + 1)

\* the docs/dist-only script: docs/dist/.vocs must exist, be listable and
\* hold an index file
LocateDist(ls) ==
    IF ls["distVocsDir"].state = "ok" /\ Len(IndexCandidates(ls["distVocsDir"].items)) > 0
    THEN [found |-> TRUE, dir |-> "distVocsDir",
          name |-> IndexCandidates(ls["distVocsDir"].items)[1]]
    ELSE [found |-> FALSE, dir |-> "", name |-> <<>>]

\* a slip that lets any listable candidate directory with an entry pass
LocateIndex_anyEntry(v, ls) ==
    LET hit == SelectSeq(candidateDirs,
                   LAMBDA d : ls[d].state = "ok" /\ Len(ls[d].items) > 0)
    IN  IF Len(hit) > 0 /\ (v # "dist" \/ hit[Len(hit)] = "distVocsDir")
        THEN [found |-> TRUE, dir |-> hit[Len(hit)],
              name |-> SortStrings(ls[hit[Len(hit)]].items)[1]]
        ELSE [found |-> FALSE, dir |-> "", name |-> <<>>]

LocateIndex(v, ls) == IF v = "dist" THEN LocateDist(ls) ELSE LocateFrom(ls, 1)

\* a slip that writes the discovered file only and mirrors it nowhere
PayloadTargets_baseOnly(v, dir, name) == << [dir |-> dir, name |-> name] >>

\* a slip that mirrors to both output locations without comparing them with
\* the discovered directory
PayloadTargets_alwaysMirror(v, dir, name) ==
    << [dir |-> dir, name |-> name],
       [dir |-> "distVocsDir", name |-> name],
       [dir |-> "vercelVocsDir", name |-> name] >>

\* payloadTargets of main; the docs/dist-only script writes the index file
\* and then its copy below .vercel/output/static/.vocs
PayloadTargets(v, dir, name) ==
    IF v = "dist"
    THEN << [dir |-> "distVocsDir", name |-> name], [dir |-> "vercelVocsDir", name |-> name] >>
    ELSE << [dir |-> dir, name |-> name] >>
         \o (IF dir # "distVocsDir" THEN << [dir |-> "distVocsDir", name |-> name] >> ELSE <<>>)
         \o (IF dir # "vercelVocsDir" THEN << [dir |-> "vercelVocsDir", name |-> name] >> ELSE <<>>)

(***************************************************************************)
(* The route allow-list of the route-filtering script                      *)
(***************************************************************************)
sIndexHtml == <<"i", "n", "d", "e", "x", ".", "h", "t", "m", "l">>
sLinkColon == <<"l", "i", "n", "k", ":">>

\* the while loop over the stack of directories: the route of every
\* directory, from dir down, that holds a file named index.html
RECURSIVE StaticRoutes(_, _)
StaticRoutes(dir, entries) ==
    LET hasIndex == \E i \in DOMAIN entries :
                        ~entries[i].isDirectory /\ entries[i].name = sIndexHtml
        rel == normalizeSlashes(dir)
        route0 == <<"/">> \o (IF Len(rel) > 0 /\ rel[1] = "/" THEN Tail(rel) ELSE rel)
        route == IF route0 = <<"/", ".">> \/ route0 = <<"/">> THEN <<"/">> ELSE route0
    IN  (IF hasIndex THEN {route} ELSE {})
        \cup UNION { StaticRoutes(Append(dir, entries[i].name), entries[i].entries) :
                        i \in { j \in DOMAIN entries : entries[j].isDirectory } }

\* the exec loop of /link:\s*'([^']+)'/g over the configuration text
RECURSIVE LinkRoutes(_)
LinkRoutes(cfg) ==
    IF Len(cfg) = 0 THEN {}
    ELSE LET r == TrimStart(DropFirst(cfg, Len(sLinkColon)))
             quotes == SelectSeq([i \in 1..Len(r) |-> i], LAMBDA i : i > 1 /\ r[i] = "'")
         IN  IF /\ StartsWith(cfg, sLinkColon)
                /\ Len(r) > 0 /\ r[1] = "'"
                /\ Len(quotes) > 0 /\ quotes[1] > 2
             THEN {SubSeq(r, 2, quotes[1] - 1)} \cup LinkRoutes(DropFirst(r, quotes[1]))
             ELSE LinkRoutes(Tail(cfg))

\* a slip that prefers the link declarations to the static output
DeriveAllowedRoutes_configFirst(static, cfg) ==
    IF cfg # <<>> /\ LinkRoutes(cfg[1]) # {}
    THEN << LinkRoutes(cfg[1]) >>
    ELSE IF static # <<>>
         THEN << StaticRoutes(<<>>, static[1]) \ { <<"/">>, <<"/", "4", "0", "4">> } >>
         ELSE <<>>

\* allowedRoutes of main: <<>> stands for undefined
DeriveAllowedRoutes(static, cfg) ==
    IF static # <<>>
    THEN << StaticRoutes(<<>>, static[1]) \ { <<"/">>, <<"/", "4", "0", "4">> } >>
    ELSE IF cfg # <<>> /\ LinkRoutes(cfg[1]) # {}
         THEN << LinkRoutes(cfg[1]) >>
         ELSE <<>>

\* d.href.split('#')[0]
RECURSIVE BeforeHash(_)
BeforeHash(href) ==
    IF Len(href) = 0 \/ href[1] = "#" THEN <<>>
    ELSE <<href[1]>> \o BeforeHash(Tail(href))

\* a slip that looks the whole href up in the allow-list
FilterDocuments_wholeHref(docs, allowed) ==
    IF allowed # <<>> /\ Cardinality(allowed[1]) > 0
    THEN SelectSeq(docs, LAMBDA d : d.href \in allowed[1])
    ELSE docs

\* filteredDocuments of main
FilterDocuments(docs, allowed) ==
    IF allowed # <<>> /\ Cardinality(allowed[1]) > 0
    THEN SelectSeq(docs, LAMBDA d : BeforeHash(d.href) \in allowed[1])
    ELSE docs

(***************************************************************************)
(* The records of one file (index-patch scripts)                           *)
(***************************************************************************)
\* a slip that copies no page flag: every record is marked as the page
FileDocuments_allPages(file) ==
    LET sections == extractSectionsFromMdx(file.content)
        hrefBase == computeHref(file.path)
    IN  [i \in DOMAIN sections |->
            LET href == hrefBase \o <<"#">> \o sections[i].anchor
            IN  [href |-> href,
                 html |-> <<>>,
                 id |-> href \o <<":", ":">> \o NatToString(i - 1),
                 isPage |-> TRUE,
                 text |-> sections[i].text,
                 title |-> sections[i].title,
                 titles |-> sections[i].titles]]

\* the body of the for-of loop of main after the file was read: file.content
\* is the content that matter(raw) returns
FileDocuments(file) ==
    LET sections == extractSectionsFromMdx(file.content)
        hrefBase == computeHref(file.path)
    IN  [i \in DOMAIN sections |->
            LET href == hrefBase \o <<"#">> \o sections[i].anchor
            IN  [href |-> href,
                 html |-> <<>>,
                 id |-> href \o <<":", ":">> \o NatToString(i - 1),
                 isPage |-> sections[i].isPage,
                 text |-> sections[i].text,
                 title |-> sections[i].title,
                 titles |-> sections[i].titles]]

(***************************************************************************)
(* The JSON-array script: getMarkdownFiles, cleanMarkdown, splitByHeadings *)
(***************************************************************************)
\* /\.(md|mdx)$/.test(name): no i flag in this script
IsMarkdownNameExact(name) == EndsWith(name, sMd) \/ EndsWith(name, sMdx)

RECURSIVE getMarkdownFiles(_, _)
getMarkdownFiles(dir, entries) ==
    IF Len(entries) = 0 THEN <<>>
    ELSE LET entry == entries[1]
             full == Append(dir, entry.name)
             here == IF entry.isDirectory THEN getMarkdownFiles(full, entry.entries)
                     ELSE IF IsMarkdownNameExact(entry.name)
                          THEN << [path |-> full, data |-> entry.data,
                                   content |-> entry.content] >>
                          ELSE <<>>
         IN  here \o getMarkdownFiles(dir, Tail(entries))

\* the first position after the first of s that holds a character of cs,
\* Len(s) + 1 when there is none: the characters before it, the first aside,
\* are copied by a replace that only acts on characters of cs
NextOf(s, cs) ==
    LET hits == { i \in 2..Len(s) : s[i] \in cs }
    IN  IF hits = {} THEN Len(s) + 1 ELSE CHOOSE i \in hits : \A j \in hits : i <= j

\* position of the first occurrence of t in s at or after position from, 0
\* when there is none
FirstIndexOf(s, t, from) ==
    LET hits == { i \in from..(Len(s) - Len(t) + 1) : SubSeq(s, i, i + Len(t) - 1) = t }
    IN  IF hits = {} THEN 0 ELSE CHOOSE i \in hits : \A j \in hits : i <= j

\* .replace(/```[\s\S]*?```/g, "")
RECURSIVE RemoveFencedBlocks(_)
RemoveFencedBlocks(s) ==
    IF Len(s) = 0 THEN <<>>
    ELSE IF StartsWith(s, sBackticks) /\ FirstIndexOf(s, sBackticks, 4) > 0
         THEN RemoveFencedBlocks(DropFirst(s, FirstIndexOf(s, sBackticks, 4) + 2))
         ELSE LET k == NextOf(s, {Backtick})
              IN  SubSeq(s, 1, k - 1) \o RemoveFencedBlocks(DropFirst(s, k - 1))

\* end of the match of /!\[.*?\]\(.*?\)/ at the start of s, 0 when s does
\* not start with an image; . does not cross a line terminator
ImageEnd(s) ==
    LET lineEnd == LET lt == { i \in DOMAIN s : IsLineTerminator(s[i]) }
                   IN  IF lt = {} THEN Len(s) ELSE (CHOOSE i \in lt : \A j \in lt : i <= j) - 1
        line == SubSeq(s, 1, lineEnd)
        mid == FirstIndexOf(line, <<"]", "(">>, 3)
        close == IF mid = 0 THEN 0 ELSE FirstIndexOf(line, <<")">>, mid + 2)
    IN  IF StartsWith(s, <<"!", "[">>) THEN close ELSE 0

\* .replace(/!\[.*?\]\(.*?\)/g, "")
RECURSIVE RemoveImages(_)
RemoveImages(s) ==
    IF Len(s) = 0 THEN <<>>
    ELSE IF ImageEnd(s) > 0 THEN RemoveImages(DropFirst(s, ImageEnd(s)))
    ELSE LET k == NextOf(s, {"!"})
         IN  SubSeq(s, 1, k - 1) \o RemoveImages(DropFirst(s, k - 1))

\* .replace(/<[^>]+>/g, by): a '<', at least one character other than '>',
\* and the nearest '>'
RECURSIVE ReplaceTags(_, _)
ReplaceTags(s, by) ==
    IF Len(s) = 0 THEN <<>>
    ELSE IF s[1] = "<" /\ FirstIndexOf(s, <<">">>, 2) > 2
         THEN by \o ReplaceTags(DropFirst(s, FirstIndexOf(s, <<">">>, 2)), by)
         ELSE LET k == NextOf(s, {"<"})
              IN  SubSeq(s, 1, k - 1) \o ReplaceTags(DropFirst(s, k - 1), by)

\* .replace(/\s+/g, " ")
RECURSIVE CollapseSpaces(_)
CollapseSpaces(s) ==
    IF Len(s) = 0 THEN <<>>
    ELSE IF IsSpace(s[1]) THEN <<" ">> \o CollapseSpaces(TrimStart(s))
    ELSE LET k == NextOf(s, {" ", "\t", "\n", "\r"})
         IN  SubSeq(s, 1, k - 1) \o CollapseSpaces(DropFirst(s, k - 1))

cleanMarkdown(content) ==
    Trim(CollapseSpaces(ReplaceTags(RemoveImages(RemoveFencedBlocks(content)), <<>>)))

\* content.split("\n")
RECURSIVE SplitOnNewline(_, _, _)
SplitOnNewline(s, cur, acc) ==
    IF Len(s) = 0 THEN Append(acc, cur)
    ELSE IF s[1] = "\n" THEN SplitOnNewline(Tail(s), <<>>, Append(acc, cur))
    ELSE LET k == NextOf(s, {"\n"})
         IN  SplitOnNewline(DropFirst(s, k - 1), cur \o SubSeq(s, 1, k - 1), acc)

\* the text of s up to its first line terminator
RECURSIVE UpToLineTerminator(_)
UpToLineTerminator(s) ==
    IF Len(s) = 0 \/ IsLineTerminator(s[1]) THEN <<>>
    ELSE <<s[1]>> \o UpToLineTerminator(Tail(s))

\* line.match(/^#{2,3}\s+(.*)/): two or three '#', then whitespace; m[1] is
\* the text after the whitespace up to a line terminator
SplitHeadingMatch(line) ==
    LET h == LeadingHashes(line)
        after == DropFirst(line, h)
        ok == h \in {2, 3} /\ Len(after) > 0 /\ IsSpace(after[1])
    IN  [matched |-> ok, rest |-> IF ok THEN UpToLineTerminator(TrimStart(after)) ELSE <<>>]

sIntroduction == <<"I", "n", "t", "r", "o", "d", "u", "c", "t", "i", "o", "n">>

\* a slip that pushes the section in progress whatever its text
SplitStep_keepBlank(st, line) ==
    LET m == SplitHeadingMatch(line)
    IN  IF m.matched
        THEN [sections |-> Append(st.sections, st.current),
              current |-> [title |-> Trim(m.rest), text |-> <<>>]]
        ELSE [st EXCEPT !.current.text = @ \o line \o <<"\n">>]

\* the loop body of splitByHeadings for one line
SplitStep(st, line) ==
    LET m == SplitHeadingMatch(line)
    IN  IF m.matched
        THEN [sections |-> IF Trim(st.current.text) # <<>>
                           THEN Append(st.sections, st.current) ELSE st.sections,
              current |-> [title |-> Trim(m.rest), text |-> <<>>]]
        ELSE [st EXCEPT !.current.text = @ \o line \o <<"\n">>]

RECURSIVE SplitLoop(_, _)
SplitLoop(st, lines) ==
    IF Len(lines) = 0 THEN st ELSE SplitLoop(SplitStep(st, lines[1]), Tail(lines))

splitByHeadings(content) ==
    LET st == SplitLoop([sections |-> <<>>,
                         current |-> [title |-> sIntroduction, text |-> <<>>]],
                        SplitOnNewline(content, <<>>, <<>>))
    IN  IF Trim(st.current.text) # <<>> THEN Append(st.sections, st.current)
        ELSE st.sections

(***************************************************************************)
(* The JSON-array script: extractTextFromMarkdown and the records          *)
(***************************************************************************)
\* HTML escaping of text by the renderer
RECURSIVE EscapeHtml(_)
EscapeHtml(s) ==
    IF Len(s) = 0 THEN <<>>
    ELSE CASE s[1] = "&" -> <<"&", "a", "m", "p", ";">> \o EscapeHtml(Tail(s))
           [] s[1] = "<" -> <<"&", "l", "t", ";">> \o EscapeHtml(Tail(s))
           [] s[1] = ">" -> <<"&", "g", "t", ";">> \o EscapeHtml(Tail(s))
           [] OTHER -> LET k == NextOf(s, {"&", "<", ">"})
                       IN  SubSeq(s, 1, k - 1) \o EscapeHtml(DropFirst(s, k - 1))

\* md.render(text) for the one-line text cleanMarkdown returns, over the
\* characters of the modelled documents (letters, digits, blanks, '#', '&',
\* '<', '>', '-', fence characters): an ATX heading line renders as <hN>, a
\* line opening a fence that is never closed renders as an empty code block,
\* any other non-empty line as a paragraph
MdRender(text) ==
    LET h == LeadingHashes(text)
        tag == <<"h", Digits[h + 1]>>
    IN  IF Len(text) = 0 THEN <<>>
        ELSE IF h >= 1 /\ h <= 6 /\ (Len(text) = h \/ text[h + 1] = " ")
             THEN <<"<">> \o tag \o <<">">> \o EscapeHtml(Trim(DropFirst(text, h)))
                  \o <<"<", "/">> \o tag \o <<">", "\n">>
        ELSE IF StartsWith(text, sBackticks) \/ StartsWith(text, sTildes)
             THEN <<"<", "p", "r", "e", ">", "<", "c", "o", "d", "e", ">", "<", "/", "c", "o", "d", "e", ">", "<", "/", "p", "r", "e", ">", "\n">>
        ELSE <<"<", "p", ">">> \o EscapeHtml(text) \o <<"<", "/", "p", ">", "\n">>

extractTextFromMarkdown(content) ==
    Trim(CollapseSpaces(ReplaceTags(MdRender(cleanMarkdown(content)), <<" ">>)))

\* \w of a regular expression
IsWordChar(c) ==
    c \in Range(LowerLetters) \cup Range(UpperLetters) \cup Range(Digits) \cup {"_"}

\* .replace(/[^\w]+/g, "-")
RECURSIVE NonWordToHyphen(_)
NonWordToHyphen(s) ==
    IF Len(s) = 0 THEN <<>>
    ELSE IF IsWordChar(s[1]) THEN <<s[1]>> \o NonWordToHyphen(Tail(s))
    ELSE IF Len(s) > 1 /\ ~IsWordChar(s[2]) THEN NonWordToHyphen(Tail(s))
    ELSE <<"-">> \o NonWordToHyphen(Tail(s))

\* the fragment of a record url
UrlFragment(title) == TrimHyphens(NonWordToHyphen(ToLowerCase(title)))

\* str.replace(/\.mdx?$/, "")
StripMdExtExact(str) ==
    IF EndsWith(str, sMd) THEN DropLast(str, 3)
    ELSE IF EndsWith(str, sMdx) THEN DropLast(str, 4)
    ELSE str

\* path.basename(file, path.extname(file))
BaseNameNoExt(name) ==
    LET dots == { i \in DOMAIN name : name[i] = "." }
        last == IF dots = {} THEN 0 ELSE CHOOSE i \in dots : \A j \in dots : j <= i
    IN  IF last <= 1 THEN name ELSE SubSeq(name, 1, last - 1)

\* .replace(/^#+\s*/, "")
StripHashPrefix(line) == TrimStart(DropFirst(line, LeadingHashes(line)))

\* baseTitle of buildIndex
BaseTitle(file) ==
    LET lines == SplitOnNewline(file.content, <<>>, <<>>)
        hashLines == SelectSeq(lines, LAMBDA l : Len(l) > 0 /\ l[1] = "#")
        fromHeading == IF Len(hashLines) > 0 THEN StripHashPrefix(hashLines[1]) ELSE <<>>
    IN  IF file.data # <<>> THEN file.data
        ELSE IF fromHeading # <<>> THEN fromHeading
        ELSE BaseNameNoExt(file.path[Len(file.path)])

\* text.slice(0, 3000)
ContentCap == 3000

sTitleSeparator == <<" ", "RIGHT-ANGLE-QUOTE", " ">>

\* a slip that stores the whole text, without slice(0, 3000)
JsonRecords_noCap(file) ==
    LET baseTitle == BaseTitle(file)
        urlBase == <<"/">> \o StripMdExtExact(normalizeSlashes(file.path))
        sections == splitByHeadings(file.content)
        kept == SelectSeq([i \in DOMAIN sections |-> i],
                          LAMBDA i : extractTextFromMarkdown(sections[i].text) # <<>>)
    IN  [k \in DOMAIN kept |->
            LET i == kept[k]
                text == extractTextFromMarkdown(sections[i].text)
            IN  [title |-> IF sections[i].title # <<>>
                           THEN baseTitle \o sTitleSeparator \o sections[i].title
                           ELSE baseTitle,
                 content |-> text,
                 url |-> IF i = 1 THEN urlBase
                         ELSE urlBase \o <<"#">> \o UrlFragment(sections[i].title)]]

\* buildIndex giving the bare URL to the first record it pushes
JsonRecords_firstPushedBare(file) ==
    LET baseTitle == BaseTitle(file)
        urlBase == <<"/">> \o StripMdExtExact(normalizeSlashes(file.path))
        sections == splitByHeadings(file.content)
        kept == SelectSeq([i \in DOMAIN sections |-> i],
                          LAMBDA i : extractTextFromMarkdown(sections[i].text) # <<>>)
    IN  [k \in DOMAIN kept |->
            LET i == kept[k]
                text == extractTextFromMarkdown(sections[i].text)
            IN  [title |-> IF sections[i].title # <<>>
                           THEN baseTitle \o sTitleSeparator \o sections[i].title
                           ELSE baseTitle,
                 content |-> SubSeq(text, 1, Min(ContentCap, Len(text))),
                 url |-> IF k = 1 THEN urlBase
                         ELSE urlBase \o <<"#">> \o UrlFragment(sections[i].title)]]

\* the body of the for-of loop of buildIndex after the file was read
JsonRecords(file) ==
    LET baseTitle == BaseTitle(file)
        urlBase == <<"/">> \o StripMdExtExact(normalizeSlashes(file.path))
        sections == splitByHeadings(file.content)
        kept == SelectSeq([i \in DOMAIN sections |-> i],
                          LAMBDA i : extractTextFromMarkdown(sections[i].text) # <<>>)
    IN  [k \in DOMAIN kept |->
            LET i == kept[k]
                text == extractTextFromMarkdown(sections[i].text)
            IN  [title |-> IF sections[i].title # <<>>
                           THEN baseTitle \o sTitleSeparator \o sections[i].title
                           ELSE baseTitle,
                 content |-> SubSeq(text, 1, Min(ContentCap, Len(text))),
                 url |-> IF i = 1 THEN urlBase
                         ELSE urlBase \o <<"#">> \o UrlFragment(sections[i].title)]]

(***************************************************************************)
(* One run of a script                                                     *)
(***************************************************************************)
IndexPatchVariants == {"patch", "filter", "dist"}

Located == LocateIndex(variant, listing)

\* the candidate loop of main found an index file
LocateFound ==
    /\ pc = "start"
    /\ variant \in IndexPatchVariants
    /\ Located.found
    /\ baseDirForIndex' = Located.dir
    /\ fileName' = Located.name
    /\ payloadTargets' = PayloadTargets(variant, Located.dir, Located.name)
    /\ pc' = "walk"
    /\ UNCHANGED <<files, fileIdx, documents, allowedRoutes, filteredDocuments,
                   writes, reads, readError, exitCode>>
    /\ UNCHANGED <<hrefVars, exVars, fnVars, fsVars>>

\* no index file: console.error and process.exit(1)
LocateFails ==
    /\ pc = "start"
    /\ variant \in IndexPatchVariants
    /\ ~Located.found
    /\ pc' = "exit"
    /\ exitCode' = 1
    /\ UNCHANGED <<baseDirForIndex, fileName, payloadTargets, files, fileIdx, documents,
                   allowedRoutes, filteredDocuments, writes, reads, readError>>
    /\ UNCHANGED <<hrefVars, exVars, fnVars, fsVars>>

\* const files = walkFiles(pagesDir) / getMarkdownFiles(DOCS_DIR)
Walk ==
    /\ \/ pc = "walk"
       \/ pc = "start" /\ variant = "json"
    /\ files' = IF variant = "json" THEN getMarkdownFiles(<<>>, tree)
                ELSE walkFiles(<<>>, tree, <<>>)
    /\ fileIdx' = 1
    /\ documents' = <<>>
    /\ pc' = "read"
    /\ UNCHANGED <<baseDirForIndex, fileName, payloadTargets, allowedRoutes,
                   filteredDocuments, writes, reads, readError, exitCode>>
    /\ UNCHANGED <<hrefVars, exVars, fnVars, fsVars>>

\* a slip that puts the records of a file before those of the files read
\* earlier (unshift instead of push)
ReadFileOk_prepend ==
    /\ pc = "read"
    /\ fileIdx <= Len(files)
    /\ reads' = reads + 1
    /\ documents' = (IF variant = "json" THEN JsonRecords(files[fileIdx])
                     ELSE FileDocuments(files[fileIdx])) \o documents
    /\ fileIdx' = fileIdx + 1
    /\ UNCHANGED <<pc, baseDirForIndex, fileName, payloadTargets, files, allowedRoutes,
                   filteredDocuments, writes, readError, exitCode>>
    /\ UNCHANGED <<hrefVars, exVars, fnVars, fsVars>>

\* one iteration of the loop over files, the file being read
ReadFileOk ==
    /\ pc = "read"
    /\ fileIdx <= Len(files)
    /\ reads' = reads + 1
    /\ documents' = documents \o (IF variant = "json" THEN JsonRecords(files[fileIdx])
                                  ELSE FileDocuments(files[fileIdx]))
    /\ fileIdx' = fileIdx + 1
    /\ UNCHANGED <<pc, baseDirForIndex, fileName, payloadTargets, files, allowedRoutes,
                   filteredDocuments, writes, readError, exitCode>>
    /\ UNCHANGED <<hrefVars, exVars, fnVars, fsVars>>

\* a best-effort loop: the read error is swallowed and the file skipped
ReadFileThrows_skip ==
    /\ pc = "read"
    /\ fileIdx <= Len(files)
    /\ reads' = reads + 1
    /\ readError' = TRUE
    /\ fileIdx' = fileIdx + 1
    /\ UNCHANGED <<pc, baseDirForIndex, fileName, payloadTargets, files, documents,
                   allowedRoutes, filteredDocuments, writes, exitCode>>
    /\ UNCHANGED <<hrefVars, exVars, fnVars, fsVars>>

\* fs.readFileSync(file, 'utf8') throws: main rejects and the catch handler
\* exits with 1; run() lets the exception end the process
ReadFileThrows ==
    /\ pc = "read"
    /\ fileIdx <= Len(files)
    /\ reads' = reads + 1
    /\ readError' = TRUE
    /\ pc' = "exit"
    /\ exitCode' = 1
    /\ UNCHANGED <<baseDirForIndex, fileName, payloadTargets, files, fileIdx, documents,
                   allowedRoutes, filteredDocuments, writes>>
    /\ UNCHANGED <<hrefVars, exVars, fnVars, fsVars>>

LoopDone == pc = "read" /\ fileIdx > Len(files)

\* the array handed to mini.addAllAsync
IndexInput == IF variant = "filter" THEN filteredDocuments ELSE documents

\* route-filtering script: allowedRoutes and filteredDocuments
DeriveAndFilter ==
    /\ LoopDone
    /\ variant = "filter"
    /\ allowedRoutes' = DeriveAllowedRoutes(staticDir, vocsConfig)
    /\ filteredDocuments' = FilterDocuments(documents, allowedRoutes')
    /\ pc' = "index"
    /\ UNCHANGED <<baseDirForIndex, fileName, payloadTargets, files, fileIdx, documents,
                   writes, reads, readError, exitCode>>
    /\ UNCHANGED <<hrefVars, exVars, fnVars, fsVars>>

\* main is about to call mini.addAllAsync
ReadyToIndex ==
    \/ pc = "index"
    \/ LoopDone /\ variant \in {"patch", "dist"}

DistinctIds(docs) ==
    \A i \in DOMAIN docs : \A j \in DOMAIN docs : i # j => docs[i].id # docs[j].id

\* await mini.addAllAsync(...) resolves; payload = JSON.stringify(mini.toJSON())
AddAllOk ==
    /\ ReadyToIndex
    /\ DistinctIds(IndexInput)
    /\ pc' = "write"
    /\ UNCHANGED <<baseDirForIndex, fileName, payloadTargets, files, fileIdx, documents,
                   allowedRoutes, filteredDocuments, writes, reads, readError, exitCode>>
    /\ UNCHANGED <<hrefVars, exVars, fnVars, fsVars>>

\* MiniSearch refuses a document whose id it already holds ("duplicate ID"):
\* main rejects and the catch handler exits with 1
AddAllRejects ==
    /\ ReadyToIndex
    /\ ~DistinctIds(IndexInput)
    /\ pc' = "exit"
    /\ exitCode' = 1
    /\ UNCHANGED <<baseDirForIndex, fileName, payloadTargets, files, fileIdx, documents,
                   allowedRoutes, filteredDocuments, writes, reads, readError>>
    /\ UNCHANGED <<hrefVars, exVars, fnVars, fsVars>>

\* one iteration of the loop over payloadTargets (mkdirSync, writeFileSync);
\* in the docs/dist-only script the write of the index file and then of its copy
WriteTarget ==
    /\ pc = "write"
    /\ Len(writes) < Len(payloadTargets)
    /\ LET target == payloadTargets[Len(writes) + 1]
       IN  writes' = Append(writes, [dir |-> target.dir, name |-> target.name,
                                     payload |-> IndexInput])
    /\ IF Len(writes') = Len(payloadTargets)
       THEN pc' = "exit" /\ exitCode' = 0
       ELSE UNCHANGED <<pc, exitCode>>
    /\ UNCHANGED <<baseDirForIndex, fileName, payloadTargets, files, fileIdx, documents,
                   allowedRoutes, filteredDocuments, reads, readError>>
    /\ UNCHANGED <<hrefVars, exVars, fnVars, fsVars>>

sIndexJson == <<"i", "n", "d", "e", "x", ".", "j", "s", "o", "n">>

\* run(): fs.writeFileSync(OUTPUT_FILE, JSON.stringify(records))
WriteJson ==
    /\ LoopDone
    /\ variant = "json"
    /\ writes' = << [dir |-> "public", name |-> sIndexJson, payload |-> documents] >>
    /\ pc' = "exit"
    /\ exitCode' = 0
    /\ UNCHANGED <<baseDirForIndex, fileName, payloadTargets, files, fileIdx, documents,
                   allowedRoutes, filteredDocuments, reads, readError>>
    /\ UNCHANGED <<hrefVars, exVars, fnVars, fsVars>>

(***************************************************************************)
(* The file systems a run starts from                                      *)
(***************************************************************************)
MaxEntries == 2

File(name, doc) ==
    [name |-> name, isDirectory |-> FALSE, entries |-> <<>>,
     data |-> doc.data, content |-> doc.content]
Dir(name, entries) ==
    [name |-> name, isDirectory |-> TRUE, entries |-> entries,
     data |-> <<>>, content |-> <<>>]

NoFrontMatter == [data |-> <<>>, content |-> <<>>]

\* documents as matter() returns them: front-matter title and body
Docs == { [data |-> <<>>, content |-> <<"#", " ", "A">>],
          [data |-> <<>>, content |-> <<"#", " ", "A", "\n", "t", "\n", "#", " ", "A", "\n", "<", "b", ">">>],
          [data |-> <<"T">>, content |-> <<"t">>] }

sA == <<"a">>
RootFileNames == { <<"a", ".", "m", "d", "x">>, <<"a", ".", "m", "d">>, sIndexMdx }
sOtherFile == <<"r", ".", "t", "x", "t">>

DistinctNames(entries) ==
    \A i \in DOMAIN entries : \A j \in DOMAIN entries :
        i # j => entries[i].name # entries[j].name

\* the subdirectory a, empty or holding one file
SubDirs ==
    { Dir(sA, <<>>) }
        \cup { Dir(sA, <<File(sIndexMdx, d)>>) : d \in Docs }
        \cup { Dir(sA, <<File(sOtherFile, NoFrontMatter)>>) }

RootEntries ==
    { File(n, d) : n \in RootFileNames, d \in Docs }
        \cup { File(sOtherFile, NoFrontMatter) } \cup SubDirs

Trees == { t \in SeqsUpTo(RootEntries, MaxEntries) : DistinctNames(t) }

\* what a candidate directory can look like
dirMissing == [state |-> "missing", items |-> <<>>]
dirUnreadable == [state |-> "unreadable", items |-> <<>>]
dirNoIndex == [state |-> "ok", items |-> << <<"x", ".", "j", "s", "o", "n">> >>]
dirIndex == [state |-> "ok", items |-> << <<"s", "e", "a", "r", "c", "h", "-", "i", "n", "d", "e", "x", "-", "b", ".", "j", "s", "o", "n">>, <<"x", ".", "j", "s", "o", "n">>,
                                      <<"S", "e", "a", "r", "c", "h", "-", "I", "n", "d", "e", "x", "-", "a", ".", "J", "S", "O", "N">> >>]
DirStates == {dirMissing, dirUnreadable, dirNoIndex, dirIndex}

\* the candidate directories: any subset of them holds the index file, the
\* others are all missing, all unreadable or all without index file; and
\* one listing where each fails in its own way
Listings ==
    { [c \in {"vercelPath0DistVocsDir", "vercelVocsDir", "distVocsDir"} |->
          IF c \in with THEN dirIndex ELSE other] :
        with \in SUBSET {"vercelPath0DistVocsDir", "vercelVocsDir", "distVocsDir"},
        other \in {dirMissing, dirUnreadable, dirNoIndex} }
    \cup { [c \in {"vercelPath0DistVocsDir", "vercelVocsDir", "distVocsDir"} |->
              CASE c = "vercelPath0DistVocsDir" -> dirMissing
                [] c = "vercelVocsDir" -> dirUnreadable
                [] OTHER -> dirNoIndex] }

\* .vercel/output/static as the build leaves it
StaticEntry(name, isDir, entries) == [name |-> name, isDirectory |-> isDir, entries |-> entries]
staticPages ==
    << StaticEntry(sIndexHtml, FALSE, <<>>),
       StaticEntry(sA, TRUE, << StaticEntry(sIndexHtml, FALSE, <<>>) >>),
       StaticEntry(<<"4", "0", "4">>, TRUE, << StaticEntry(sIndexHtml, FALSE, <<>>) >>),
       StaticEntry(<<"l", "o", "g", "o">>, TRUE, <<>>) >>
staticRootOnly == << StaticEntry(sIndexHtml, FALSE, <<>>) >>
\* no page at the root, a page two directories down, and a directory that
\* is itself named index.html
staticNested ==
    << StaticEntry(<<"b">>, TRUE,
           << StaticEntry(<<"x", ".", "h", "t", "m", "l">>, FALSE, <<>>),
              StaticEntry(<<"c">>, TRUE, << StaticEntry(sIndexHtml, FALSE, <<>>) >>) >>),
       StaticEntry(<<"d">>, TRUE, << StaticEntry(sIndexHtml, TRUE, <<>>) >>) >>

sConfigText == <<"l", "i", "n", "k", ":", " ", "'", "/", "a", "'", ",", "\n", "l", "i", "n", "k", ":", "'", "/", "b", "'", " ", "l", "i", "n", "k", ":", " ", "'", "'">>

OnlyDir(d, st) ==
    [c \in {"vercelPath0DistVocsDir", "vercelVocsDir", "distVocsDir"} |->
        IF c = d THEN st ELSE dirMissing]

\* file systems of the route-filtering script: .vercel/output/static exists
\* whenever its .vocs subdirectory does
FilterSetups ==
    { [listing |-> l, staticDir |-> sc[1], vocsConfig |-> sc[2]] :
        l \in { OnlyDir("distVocsDir", dirMissing), OnlyDir("distVocsDir", dirIndex),
                OnlyDir("vercelPath0DistVocsDir", dirIndex) },
        sc \in { << <<>>, <<>> >>, << <<>>, <<sConfigText>> >>,
                 << <<staticPages>>, <<sConfigText>> >>, << <<staticRootOnly>>, <<>> >>,
                 << <<staticNested>>, <<sConfigText>> >> } }
    \cup
    { [listing |-> OnlyDir("vercelVocsDir", dirIndex), staticDir |-> sd, vocsConfig |-> <<>>] :
        sd \in { <<staticPages>>, <<staticRootOnly>> } }

\* the listings seen when the script runs in /vercel/path0: the first and
\* the last candidate are one directory
Path0Listings ==
    { [c \in {"vercelPath0DistVocsDir", "vercelVocsDir", "distVocsDir"} |->
          IF c = "vercelVocsDir" THEN sv[2] ELSE sv[1]] :
        sv \in { <<dirIndex, dirMissing>>, <<dirNoIndex, dirIndex>> } }

Setups ==
    { [variant |-> "patch", cwd |-> "elsewhere", listing |-> l,
       staticDir |-> <<>>, vocsConfig |-> <<>>] : l \in Listings }
    \cup
    { [variant |-> "patch", cwd |-> "/vercel/path0", listing |-> l,
       staticDir |-> <<>>, vocsConfig |-> <<>>] : l \in Path0Listings }
    \cup
    { [variant |-> "dist", cwd |-> "elsewhere", listing |-> OnlyDir("distVocsDir", st),
       staticDir |-> <<>>, vocsConfig |-> <<>>] : st \in DirStates }
    \cup
    { [variant |-> "filter", cwd |-> "elsewhere", listing |-> f.listing,
       staticDir |-> f.staticDir, vocsConfig |-> f.vocsConfig] : f \in FilterSetups }
    \cup
    { [variant |-> "json", cwd |-> "elsewhere", listing |-> OnlyDir("distVocsDir", dirMissing),
       staticDir |-> <<>>, vocsConfig |-> <<>>] }

\* documents directories with at most one entry
SmallTrees == { t \in Trees : Len(t) <= 1 }

\* the setups run on every tree: one per way of getting past the lookup of
\* the index file; the other setups run on the small trees
IsMainSetup(su) ==
    \/ su.variant = "json"
    \/ su.variant = "dist" /\ su.listing = OnlyDir("distVocsDir", dirIndex)
    \/ su.variant = "filter" /\ su.staticDir = <<staticPages>>
    \/ su.variant = "filter" /\ su.staticDir = <<>> /\ su.vocsConfig # <<>>
                             /\ su.listing = OnlyDir("distVocsDir", dirIndex)
    \/ su.variant = "patch" /\ su.cwd = "/vercel/path0"
    \/ su.variant = "patch" /\ su.listing \in { OnlyDir("vercelPath0DistVocsDir", dirIndex),
                                                OnlyDir("vercelVocsDir", dirIndex) }

RunInit ==
    /\ \E su \in Setups :
        /\ variant = su.variant
        /\ cwd = su.cwd
        /\ listing = su.listing
        /\ staticDir = su.staticDir
        /\ vocsConfig = su.vocsConfig
        /\ tree \in IF IsMainSetup(su) THEN Trees ELSE SmallTrees
    /\ pc = "start"
    /\ baseDirForIndex = ""
    /\ fileName = <<>>
    /\ payloadTargets = <<>>
    /\ files = <<>>
    /\ fileIdx = 1
    /\ documents = <<>>
    /\ allowedRoutes = <<>>
    /\ filteredDocuments = <<>>
    /\ writes = <<>>
    /\ reads = 0
    /\ readError = FALSE
    /\ exitCode = -1

Init == HrefIdle /\ ExIdle /\ FnIdle /\ RunInit

Next ==
    \/ LocateFound
    \/ LocateFails
    \/ Walk
    \/ ReadFileOk
    \/ ReadFileThrows
    \/ DeriveAndFilter
    \/ AddAllOk
    \/ AddAllRejects
    \/ WriteTarget
    \/ WriteJson

Spec == Init /\ [][Next]_vars

(***************************************************************************)
(* Inputs of computeHref: directory names, file stems and extensions       *)
(***************************************************************************)
MaxDepth == 2

HrefDirNames == { <<"g","u","i","d","e">>, <<"a">>, <<"i","n","d","e","x">> }
HrefStems == { <<"i","n","d","e","x">>, <<"I","n","d","e","x">>,
               <<"I","N","D","E","X">>, <<"m","y","i","n","d","e","x">>,
               <<"s","e","t","u","p">>, <<"a">>, <<"a",".","m","d">>, <<>> }
HrefExts == { <<".","m","d">>, <<".","m","d","x">>, <<".","M","D","X">> }
HrefPaths == { d \o <<st \o ex>> :
                 d \in SeqsUpTo(HrefDirNames, MaxDepth), st \in HrefStems, ex \in HrefExts }

HrefInit ==
    /\ hrefPath \in HrefPaths
    /\ hrefOut = <<>>
    /\ hrefPc = "in"

ApplyComputeHref ==
    /\ hrefPc = "in"
    /\ hrefOut' = computeHref(hrefPath)
    /\ hrefPc' = "done"
    /\ UNCHANGED <<hrefPath, exVars, fnVars, fsVars, runVars>>

InitHref == HrefInit /\ ExIdle /\ FnIdle /\ RunIdle

SpecHref == InitHref /\ [][ApplyComputeHref]_vars

(***************************************************************************)
(* Inputs of extractSectionsFromMdx: bodies of up to MaxLines lines        *)
(***************************************************************************)
MaxLines == 4

ExLines == { <<"#", " ", "A">>,                      \* level 1
             <<"#", " ", "D">>,                      \* level 1, another title
             <<"#", "#", " ", " ", "B", " ">>,       \* level 2, padded
             <<"#", "#", "#", " ", "C">>,            \* level 3
             <<"#", " ", "E", "\r">>,                \* heading of a CRLF file
             <<"#", " ">>,                           \* heading with empty text
             <<"#", "A">>,                           \* no whitespace: no heading
             <<"#", "#", "#", "#", "#", "#", "#", " ", "x">>,  \* seven '#'
             <<"t">> }                               \* plain text

ExBodies == { Join(ls, <<"\n">>) : ls \in SeqsUpTo(ExLines, MaxLines) }

ExInit ==
    /\ exBody \in ExBodies
    /\ exOut = <<>>
    /\ exPc = "in"

ApplyExtract ==
    /\ exPc = "in"
    /\ exOut' = extractSectionsFromMdx(exBody)
    /\ exPc' = "done"
    /\ UNCHANGED <<exBody, hrefVars, fnVars, fsVars, runVars>>

InitExtract == ExInit /\ HrefIdle /\ FnIdle /\ RunIdle

SpecExtract == InitExtract /\ [][ApplyExtract]_vars

(***************************************************************************)
(* Inputs of slugify: titles of up to MaxTitleLen characters               *)
(***************************************************************************)
MaxTitleLen == 4

\* an upper-case and a lower-case letter, a digit, the ampersand, blank and
\* tab, the hyphen, and a character slugify strips
TitleChars == {"A", "b", "1", "&", " ", "\t", "-", "!"}

Titles == SeqsUpTo(TitleChars, MaxTitleLen)

SlugInit ==
    /\ slugIn \in Titles
    /\ slugOut = <<>>
    /\ slugRepeat = <<>>
    /\ slugOfSlug = <<>>
    /\ slugPc = "in"

\* const anchor = slugify(title)
ApplySlugify ==
    /\ slugPc = "in"
    /\ slugOut' = slugify(slugIn)
    /\ slugPc' = "once"
    /\ UNCHANGED <<slugIn, slugRepeat, slugOfSlug>>
    /\ UNCHANGED <<hrefVars, exVars, colVars, jsonVars, otherVars, fsVars, runVars>>

\* slugify called again, on the same title and on its own result
ReapplySlugify ==
    /\ slugPc = "once"
    /\ slugRepeat' = slugify(slugIn)
    /\ slugOfSlug' = slugify(slugOut)
    /\ slugPc' = "done"
    /\ UNCHANGED <<slugIn, slugOut>>
    /\ UNCHANGED <<hrefVars, exVars, colVars, jsonVars, otherVars, fsVars, runVars>>

InitSlug == SlugInit /\ ColIdle /\ JsonIdle /\ OtherIdle /\ HrefIdle /\ ExIdle /\ RunIdle

NextSlug == ApplySlugify \/ ReapplySlugify

SpecSlug == InitSlug /\ [][NextSlug]_vars

(***************************************************************************)
(* Inputs of the JSON-array script: one document, its body of up to        *)
(* MaxJsLines lines, or a body longer than the content cap                 *)
(***************************************************************************)
MaxJsLines == 4

JsLines == { <<"t">>,                          \* plain text
             <<" ">>,                          \* a blank line
             <<"#", "#", " ", "T">>,           \* heading of level 2
             <<"#", "#", "#", " ", "U", " ">>, \* heading of level 3, padded
             <<"#", " ", "A">>,                \* level 1: no section heading
             <<"#", "#", "x">>,                \* no whitespace: no heading
             sBackticks,                       \* a fence line
             <<"s">> }                         \* text used inside fences

JsBodies == { Join(ls, <<"\n">>) : ls \in SeqsUpTo(JsLines, MaxJsLines) }

\* one word of n characters
Word(n) == [i \in 1..n |-> "x"]

\* bodies whose text reaches or passes the cap
LongBodies ==
    { Word(ContentCap), Word(ContentCap + 1),
      <<"t", "\n", "#", "#", " ", "T", "\n">> \o Word(ContentCap + 1),
      Word(ContentCap + 1) \o <<"\n", "#", "#", " ", "T", "\n", "t">> }

sAMd == <<"a", ".", "m", "d">>

JsonInit ==
    /\ \E body \in JsBodies \cup LongBodies :
          jsFile = [path |-> <<sAMd>>, data |-> <<>>, content |-> body]
    /\ jsSections = <<>>
    /\ jsRecords = <<>>
    /\ jsPc = "in"

\* const sections = splitByHeadings(content)
ApplySplit ==
    /\ jsPc = "in"
    /\ jsSections' = splitByHeadings(jsFile.content)
    /\ jsPc' = "split"
    /\ UNCHANGED <<jsFile, jsRecords>>
    /\ UNCHANGED <<hrefVars, exVars, slugVars, colVars, otherVars, fsVars, runVars>>

\* the loop of buildIndex over the sections of the document
ApplyBuild ==
    /\ jsPc = "split"
    /\ jsRecords' = JsonRecords(jsFile)
    /\ jsPc' = "done"
    /\ UNCHANGED <<jsFile, jsSections>>
    /\ UNCHANGED <<hrefVars, exVars, slugVars, colVars, otherVars, fsVars, runVars>>

InitJson == JsonInit /\ SlugIdle /\ ColIdle /\ OtherIdle /\ HrefIdle /\ ExIdle /\ RunIdle

NextJson == ApplySplit \/ ApplyBuild

SpecJson == InitJson /\ [][NextJson]_vars

(***************************************************************************)
(* Inputs of the file collectors: trees of directories nested up to        *)
(* MaxColDepth below the root; the root lists up to two entries, every     *)
(* other directory at most one                                             *)
(***************************************************************************)
MaxColDepth == 2

ColFileNames == { sAMd, <<"b", ".", "m", "d", "x">>, <<"c", ".", "M", "D">>,
                  sOtherFile, <<"m", "d">> }
ColDirNames == { <<"d">>, <<"e", ".", "m", "d">> }

ColFiles == { File(n, NoFrontMatter) : n \in ColFileNames }

\* what a directory depth levels above the deepest one can list
RECURSIVE ColListings(_)
ColListings(depth) ==
    LET below == IF depth = 0 THEN {}
                 ELSE { Dir(n, l) : n \in ColDirNames, l \in ColListings(depth - 1) }
    IN  { <<>> } \cup { <<e>> : e \in ColFiles \cup below }

ColTrees ==
    LET entries == ColFiles \cup { Dir(n, l) : n \in ColDirNames, l \in ColListings(MaxColDepth - 1) }
    IN  { <<>> } \cup { <<e>> : e \in entries }
        \cup { t \in { <<e, f>> : e \in entries, f \in entries } : t[1].name # t[2].name }

ColInit ==
    /\ colTree \in ColTrees
    /\ colWalk = <<>>
    /\ colGet = <<>>
    /\ colDone = {}

\* const files = walkFiles(pagesDir)
ApplyWalkFiles ==
    /\ "walkFiles" \notin colDone
    /\ colWalk' = walkFiles(<<>>, colTree, <<>>)
    /\ colDone' = colDone \cup {"walkFiles"}
    /\ UNCHANGED <<colTree, colGet>>
    /\ UNCHANGED <<hrefVars, exVars, slugVars, jsonVars, otherVars, fsVars, runVars>>

\* const files = getMarkdownFiles(DOCS_DIR)
ApplyGetMarkdownFiles ==
    /\ "getMarkdownFiles" \notin colDone
    /\ colGet' = getMarkdownFiles(<<>>, colTree)
    /\ colDone' = colDone \cup {"getMarkdownFiles"}
    /\ UNCHANGED <<colTree, colWalk>>
    /\ UNCHANGED <<hrefVars, exVars, slugVars, jsonVars, otherVars, fsVars, runVars>>

InitCollect == ColInit /\ SlugIdle /\ JsonIdle /\ OtherIdle /\ HrefIdle /\ ExIdle /\ RunIdle

NextCollect == ApplyWalkFiles \/ ApplyGetMarkdownFiles

SpecCollect == InitCollect /\ [][NextCollect]_vars

(***************************************************************************)
(* .github/scripts/process-images.js: the image upload script.             *)
(***************************************************************************)
MAX_FILE_SIZE == 10 * 1024 * 1024
MAX_WIDTH == 4096
MAX_HEIGHT == 4096
ALLOWED_FORMATS == {"jpeg", "jpg", "png", "gif", "webp", "svg"}

\* String.prototype.includes
Includes(s, t) == \E i \in 0..(Len(s) - Len(t)) : SubSeq(s, i + 1, i + Len(t)) = t

\* url.split('?')[0]
BeforeQuery(url) ==
    IF \E i \in DOMAIN url : url[i] = "?"
    THEN SubSeq(url, 1, (CHOOSE i \in DOMAIN url :
                            url[i] = "?" /\ \A j \in 1..(i - 1) : url[j] # "?") - 1)
    ELSE url

sUserImages ==
    <<"u", "s", "e", "r", "-", "i", "m", "a", "g", "e", "s", ".", "g", "i",
      "t", "h", "u", "b", "u", "s", "e", "r", "c", "o", "n", "t", "e", "n",
      "t", ".", "c", "o", "m">>
sPrivateUserImages ==
    <<"p", "r", "i", "v", "a", "t", "e", "-", "u", "s", "e", "r", "-", "i",
      "m", "a", "g", "e", "s", ".", "g", "i", "t", "h", "u", "b", "u", "s",
      "e", "r", "c", "o", "n", "t", "e", "n", "t", ".", "c", "o", "m">>
sGithubCom ==
    <<"g", "i", "t", "h", "u", "b", ".", "c", "o", "m">>
sAssets ==
    <<"/", "a", "s", "s", "e", "t", "s", "/">>

\* /\.(jpg|jpeg|png|gif|webp|svg)$/i
imageExtensions ==
    {<<".", "j", "p", "g">>,
     <<".", "j", "p", "e", "g">>,
     <<".", "p", "n", "g">>,
     <<".", "g", "i", "f">>,
     <<".", "w", "e", "b", "p">>,
     <<".", "s", "v", "g">>}

TestImageExtensions(s) == \E e \in imageExtensions : EndsWith(ToLowerCase(s), e)

\* extractDirectImageUrl: the URL itself, or the message of the Error thrown
extractDirectImageUrl(url) ==
    IF \/ Includes(url, sUserImages)
       \/ Includes(url, sPrivateUserImages)
       \/ (Includes(url, sGithubCom) /\ Includes(url, sAssets))
    THEN LET isImageUrl == TestImageExtensions(BeforeQuery(url)) \/ Includes(url, sAssets)
         IN  IF isImageUrl
             THEN [ok |-> TRUE, value |-> url]
             ELSE [ok |-> FALSE,
                   message |-> "GitHub URL does not appear to be an image"]
    ELSE [ok |-> FALSE, message |-> "Only GitHub-hosted images are supported"]

\* what the request of downloadImage meets: a 2xx body, another status, a timeout
HttpStatuses == {404}
Buffers ==
    {[size |-> 1024, format |-> "png", width |-> 100, height |-> 100, decodes |-> TRUE],
     [size |-> MAX_FILE_SIZE, format |-> "jpeg", width |-> MAX_WIDTH,
      height |-> MAX_HEIGHT, decodes |-> TRUE],
     [size |-> MAX_FILE_SIZE + 1, format |-> "png", width |-> 100, height |-> 100,
      decodes |-> TRUE],
     [size |-> 1024, format |-> "tiff", width |-> 100, height |-> 100, decodes |-> TRUE],
     [size |-> 1024, format |-> "png", width |-> MAX_WIDTH + 1, height |-> 100,
      decodes |-> TRUE],
     [size |-> 1024, format |-> "png", width |-> 100, height |-> MAX_HEIGHT + 1,
      decodes |-> TRUE],
     [size |-> 1024, format |-> "png", width |-> 100, height |-> 100,
      decodes |-> FALSE]}
Responses ==
    {[kind |-> "body", buffer |-> b] : b \in Buffers}
    \cup {[kind |-> "status", status |-> st] : st \in HttpStatuses}
    \cup {[kind |-> "timeout"]}

\* downloadImage: the buffer, or the message of the Error thrown
downloadImage(url, response) ==
    IF response.kind = "body"
    THEN IF response.buffer.size > MAX_FILE_SIZE
         THEN [ok |-> FALSE, message |-> "Download failed: Image size exceeds maximum"]
         ELSE [ok |-> TRUE, value |-> response.buffer]
    ELSE IF response.kind = "status"
    THEN IF response.status = 404
         THEN IF Includes(url, sPrivateUserImages) \/ Includes(url, sUserImages)
              THEN [ok |-> FALSE, message |-> "GitHub image URL not found or expired"]
              ELSE [ok |-> FALSE, message |-> "HTTP 404: Image not found"]
         ELSE IF response.status = 403
         THEN [ok |-> FALSE, message |-> "HTTP 403: Access forbidden"]
         ELSE IF response.status = 410
         THEN [ok |-> FALSE, message |-> "HTTP 410: Image has been removed or expired"]
         ELSE [ok |-> FALSE, message |-> "HTTP status: Failed to download image"]
    ELSE [ok |-> FALSE, message |-> "Download timeout"]

\* validateImage without its check of the dimensions
validateImage_noDimensions(buffer) ==
    IF buffer.size > MAX_FILE_SIZE
    THEN [ok |-> FALSE, message |-> "Image exceeds size limit"]
    ELSE IF buffer.format \notin ALLOWED_FORMATS
    THEN [ok |-> FALSE, message |-> "Image validation failed: Invalid format"]
    ELSE IF ~buffer.decodes
    THEN [ok |-> FALSE, message |-> "Image validation failed: corrupt image"]
    ELSE [ok |-> TRUE,
          value |-> [format |-> buffer.format, width |-> buffer.width,
                     height |-> buffer.height]]

\* validateImage: the metadata, or the message of the Error thrown; sharp
\* throws on a buffer it cannot decode
validateImage(buffer) ==
    IF buffer.size > MAX_FILE_SIZE
    THEN [ok |-> FALSE, message |-> "Image exceeds size limit"]
    ELSE IF buffer.format \notin ALLOWED_FORMATS
    THEN [ok |-> FALSE, message |-> "Image validation failed: Invalid format"]
    ELSE IF buffer.width > MAX_WIDTH \/ buffer.height > MAX_HEIGHT
    THEN [ok |-> FALSE, message |-> "Image validation failed: Image dimensions exceed maximum"]
    ELSE IF ~buffer.decodes
    THEN [ok |-> FALSE, message |-> "Image validation failed: corrupt image"]
    ELSE [ok |-> TRUE,
          value |-> [format |-> buffer.format, width |-> buffer.width,
                     height |-> buffer.height]]

\* generateUniqueFilename: timestamp, uuid and hash are left out, the name keeps
\* the URL it was made for and the format as its extension
generateUniqueFilename(originalUrl, format) == [of |-> originalUrl, ext |-> format]

\* the URLs urls.json may hold
uPrivateJwt ==
    <<"h", "t", "t", "p", "s", ":", "/", "/", "p", "r", "i", "v", "a", "t",
      "e", "-", "u", "s", "e", "r", "-", "i", "m", "a", "g", "e", "s", ".",
      "g", "i", "t", "h", "u", "b", "u", "s", "e", "r", "c", "o", "n", "t",
      "e", "n", "t", ".", "c", "o", "m", "/", "1", "/", "a", ".", "P", "N",
      "G", "?", "j", "w", "t", "=", "x">>
uGithubAssets ==
    <<"h", "t", "t", "p", "s", ":", "/", "/", "g", "i", "t", "h", "u", "b",
      ".", "c", "o", "m", "/", "o", "/", "r", "/", "a", "s", "s", "e", "t",
      "s", "/", "1", "/", "a">>
uUserImagesTxt ==
    <<"h", "t", "t", "p", "s", ":", "/", "/", "u", "s", "e", "r", "-", "i",
      "m", "a", "g", "e", "s", ".", "g", "i", "t", "h", "u", "b", "u", "s",
      "e", "r", "c", "o", "n", "t", "e", "n", "t", ".", "c", "o", "m", "/",
      "1", "/", "a", ".", "t", "x", "t">>
uGithubBlob ==
    <<"h", "t", "t", "p", "s", ":", "/", "/", "g", "i", "t", "h", "u", "b",
      ".", "c", "o", "m", "/", "o", "/", "r", "/", "b", "l", "o", "b", "/",
      "a", ".", "p", "n", "g">>
uOtherHost ==
    <<"h", "t", "t", "p", "s", ":", "/", "/", "e", "x", "a", "m", "p", "l",
      "e", ".", "c", "o", "m", "/", "a", ".", "p", "n", "g">>
uOtherHostPath ==
    <<"h", "t", "t", "p", "s", ":", "/", "/", "e", "x", "a", "m", "p", "l",
      "e", ".", "c", "o", "m", "/", "u", "s", "e", "r", "-", "i", "m", "a",
      "g", "e", "s", ".", "g", "i", "t", "h", "u", "b", "u", "s", "e", "r",
      "c", "o", "n", "t", "e", "n", "t", ".", "c", "o", "m", "/", "a", ".",
      "p", "n", "g">>
ImgUrlSet == {uPrivateJwt, uGithubAssets, uUserImagesTxt, uGithubBlob, uOtherHost, uOtherHostPath}

MaxUrls == 2
UrlArrays == UNION {[1..k -> ImgUrlSet] : k \in 0..MaxUrls}

ImgInit ==
    /\ imgFile \in {[kind |-> "missing"], [kind |-> "notArray"]}
                 \cup {[kind |-> "array", urls |-> a] : a \in UrlArrays}
    /\ imgUrls = <<>>
    /\ imgIdx = 0
    /\ imgPc = "read"
    /\ imgDirectUrl = <<>>
    /\ imgBuffer = <<>>
    /\ imgMetadata = <<>>
    /\ imgDownloads = <<>>
    /\ imgUploads = <<>>
    /\ imgResults = <<>>
    /\ imgPrinted = <<>>

\* main, lines 345-368: read and check urls.json
ImgReadUrls ==
    /\ imgPc = "read"
    /\ IF imgFile.kind # "array" \/ Len(imgFile.urls) = 0
       THEN /\ imgPc' = "exit1"
            /\ UNCHANGED <<imgUrls, imgIdx>>
       ELSE /\ imgUrls' = imgFile.urls
            /\ imgIdx' = 1
            /\ imgPc' = "extract"
    /\ UNCHANGED <<imgFile, imgDirectUrl, imgBuffer, imgMetadata, imgDownloads,
                   imgUploads, imgResults, imgPrinted>>
    /\ UNCHANGED <<hrefVars, exVars, slugVars, colVars, jsonVars, pageVars, mmVars,
                   fsVars, runVars>>

\* processImage returns its result and main pushes it and goes on with the loop
ImgPush(result) ==
    /\ imgResults' = Append(imgResults, result)
    /\ imgIdx' = imgIdx + 1
    /\ imgPc' = IF imgIdx < Len(imgUrls) THEN "extract" ELSE "print"
    /\ imgDirectUrl' = <<>>
    /\ imgBuffer' = <<>>
    /\ imgMetadata' = <<>>

\* an Error of processImage that leaves it: main rejects and the process exits
ImgCatch_rethrow(message) ==
    /\ imgPc' = "exit1"
    /\ UNCHANGED <<imgResults, imgIdx, imgDirectUrl, imgBuffer, imgMetadata>>

\* the catch of processImage
ImgCatch(message) ==
    ImgPush([success |-> FALSE, originalUrl |-> imgUrls[imgIdx], error |-> message])

\* processImage, step 1
ImgExtract ==
    /\ imgPc = "extract"
    /\ LET r == extractDirectImageUrl(imgUrls[imgIdx])
       IN  IF r.ok
           THEN /\ imgDirectUrl' = <<r.value>>
                /\ imgPc' = "download"
                /\ UNCHANGED <<imgResults, imgIdx, imgBuffer, imgMetadata>>
           ELSE ImgCatch(r.message)
    /\ UNCHANGED <<imgFile, imgUrls, imgDownloads, imgUploads, imgPrinted>>
    /\ UNCHANGED <<hrefVars, exVars, slugVars, colVars, jsonVars, pageVars, mmVars,
                   fsVars, runVars>>

\* processImage, step 2
ImgDownload ==
    /\ imgPc = "download"
    /\ \E response \in Responses :
         /\ imgDownloads' = Append(imgDownloads,
                [idx |-> imgIdx, url |-> imgDirectUrl[1], response |-> response])
         /\ LET r == downloadImage(imgDirectUrl[1], response)
            IN  IF r.ok
                THEN /\ imgBuffer' = <<r.value>>
                     /\ imgPc' = "validate"
                     /\ UNCHANGED <<imgResults, imgIdx, imgDirectUrl, imgMetadata>>
                ELSE ImgCatch(r.message)
    /\ UNCHANGED <<imgFile, imgUrls, imgUploads, imgPrinted>>
    /\ UNCHANGED <<hrefVars, exVars, slugVars, colVars, jsonVars, pageVars, mmVars,
                   fsVars, runVars>>

\* processImage, step 3
ImgValidate ==
    /\ imgPc = "validate"
    /\ LET r == validateImage(imgBuffer[1])
       IN  IF r.ok
           THEN /\ imgMetadata' = <<r.value>>
                /\ imgPc' = "upload"
                /\ UNCHANGED <<imgResults, imgIdx, imgDirectUrl, imgBuffer>>
           ELSE ImgCatch(r.message)
    /\ UNCHANGED <<imgFile, imgUrls, imgDownloads, imgUploads, imgPrinted>>
    /\ UNCHANGED <<hrefVars, exVars, slugVars, colVars, jsonVars, pageVars, mmVars,
                   fsVars, runVars>>

\* processImage, steps 4 and 5: uploadToS3 starts the upload, which is done or fails
ImgUpload ==
    /\ imgPc = "upload"
    /\ LET url == imgUrls[imgIdx]
           filename == generateUniqueFilename(url, imgMetadata[1].format)
       IN  /\ imgUploads' = Append(imgUploads,
                  [idx |-> imgIdx, url |-> url, buffer |-> imgBuffer[1],
                   filename |-> filename])
           /\ \E done \in BOOLEAN :
                IF done
                THEN ImgPush([success |-> TRUE, originalUrl |-> url,
                              s3Url |-> filename, filename |-> filename,
                              metadata |-> [format |-> imgMetadata[1].format,
                                            width |-> imgMetadata[1].width,
                                            height |-> imgMetadata[1].height,
                                            size |-> imgBuffer[1].size]])
                ELSE ImgCatch("S3 upload failed")
    /\ UNCHANGED <<imgFile, imgUrls, imgDownloads, imgPrinted>>
    /\ UNCHANGED <<hrefVars, exVars, slugVars, colVars, jsonVars, pageVars, mmVars,
                   fsVars, runVars>>

\* main, line 389: the results are printed
ImgPrint ==
    /\ imgPc = "print"
    /\ imgPrinted' = <<imgResults>>
    /\ imgPc' = "done"
    /\ UNCHANGED <<imgFile, imgUrls, imgIdx, imgDirectUrl, imgBuffer, imgMetadata,
                   imgDownloads, imgUploads, imgResults>>
    /\ UNCHANGED <<hrefVars, exVars, slugVars, colVars, jsonVars, pageVars, mmVars,
                   fsVars, runVars>>

InitImages ==
    ImgInit /\ PageIdle /\ MmIdle /\ SlugIdle /\ ColIdle /\ JsonIdle /\ HrefIdle
    /\ ExIdle /\ RunIdle

NextImages ==
    \/ ImgReadUrls
    \/ ImgExtract
    \/ ImgDownload
    \/ ImgValidate
    \/ ImgUpload
    \/ ImgPrint

SpecImages == InitImages /\ [][NextImages]_vars

(***************************************************************************)
(* docs/public/enhanced-theme.js: the theme class of the root element and  *)
(* the client-side redirects.                                              *)
(***************************************************************************)
\* applyTheme without the removal of the existing theme classes
applyTheme_keepClasses(classes, stored, matches) ==
    LET theme == IF stored # <<>> /\ stored[1] # "" THEN stored[1]
                 ELSE IF matches THEN "dark" ELSE "light"
    IN  IF theme = "dark" THEN classes \cup {"dark"} ELSE classes \cup {"light"}

\* applyTheme: the theme classes of the root element after it ran; a stored
\* value that is null or the empty string is falsy
applyTheme(classes, stored, matches) ==
    LET theme == IF stored # <<>> /\ stored[1] # "" THEN stored[1]
                 ELSE IF matches THEN "dark" ELSE "light"
        removed == classes \ {"dark", "light"}
    IN  IF theme = "dark" THEN removed \cup {"dark"} ELSE removed \cup {"light"}

\* !localStorage.getItem("vocs.theme")
NoStoredTheme(stored) == stored = <<>> \/ stored[1] = ""

\* the listener of the change event
OnChange(classes, matches) ==
    IF matches THEN (classes \cup {"dark"}) \ {"light"}
    ELSE (classes \cup {"light"}) \ {"dark"}

sIntro == <<"i", "n", "t", "r", "o">>
sContribute == <<"c", "o", "n", "t", "r", "i", "b", "u", "t", "e">>
sApi == <<"a", "p", "i">>
sAssetsName == <<"a", "s", "s", "e", "t", "s">>
sLogo == <<"l", "o", "g", "o">>
sFavicon == <<"f", "a", "v", "i", "c", "o", "n", ".", "i", "c", "o">>
sDocs == <<"d", "o", "c", "s">>
sOverview == <<"o", "v", "e", "r", "v", "i", "e", "w">>
sIntroductionPage == <<"i", "n", "t", "r", "o", "d", "u", "c", "t", "i", "o", "n">>
sContributing == <<"c", "o", "n", "t", "r", "i", "b", "u", "t", "i", "n", "g">>

\* the fixed entries of redirects: <<target>>, or <<>> when path is no key
FixedRedirect(path) ==
    IF path \in {<<"/">> \o sIntro \o <<"/">>, <<"/">> \o sIntro}
    THEN << <<"/">> \o sIntro \o <<"/">> \o sIntroductionPage >>
    ELSE IF path \in {<<"/">> \o sContribute \o <<"/">>, <<"/">> \o sContribute}
    THEN << <<"/">> \o sContribute \o <<"/">> \o sContributing >>
    ELSE <<>>

\* path.match(/^\/([^\/]+)\/?$/): <<section>>, or <<>> when there is no match
SectionMatch(path) ==
    IF Len(path) < 2 \/ path[1] # "/" THEN <<>>
    ELSE LET body == IF path[Len(path)] = "/" THEN SubSeq(path, 2, Len(path) - 1)
                     ELSE SubSeq(path, 2, Len(path))
         IN  IF body # <<>> /\ "/" \notin Range(body) THEN <<body>> ELSE <<>>

skipPaths == {sApi, sAssetsName, sLogo, sFavicon}

\* a section redirect that leaves the section out of its target
SectionTarget_noSection(section) == <<"/">> \o sOverview

\* `/${section}/overview`
SectionTarget(section) == <<"/">> \o section \o <<"/">> \o sOverview

\* handleRedirects: <<target>> when it redirects, <<>> when it does not
handleRedirects(path) ==
    LET fixed == FixedRedirect(path)
        sectionMatch == SectionMatch(path)
    IN  IF fixed # <<>> THEN fixed
        ELSE IF sectionMatch # <<>> /\ sectionMatch[1] \notin skipPaths
        THEN <<SectionTarget(sectionMatch[1])>>
        ELSE <<>>

\* the pathnames of a first load
MaxSegments == 2
MaxRedirects == 3
PathSegments == {sIntro, sContribute, sApi, sAssetsName, sLogo, sFavicon, sDocs, sOverview}
Pathnames ==
    {<<"/">>} \cup
    UNION { { <<"/">> \o Join(segs, <<"/">>) \o tail : tail \in {<<>>, <<"/">>} } :
            segs \in UNION {[1..k -> PathSegments] : k \in 1..MaxSegments} }

StoredThemes == {<<>>, <<"dark">>, <<"light">>, <<"system">>, <<"">>}
ShippedClasses == {{}, {"dark"}, {"light"}}

PageInit ==
    /\ storedTheme \in StoredThemes
    /\ prefersDark \in BOOLEAN
    /\ htmlClasses \in ShippedClasses
    /\ classList = htmlClasses
    /\ listener = FALSE
    /\ scriptRan = FALSE
    /\ classAtLoad = {}
    /\ pathname \in Pathnames
    /\ firstPathname = pathname
    /\ redirectCount = 0
    /\ pagePc = "load"

\* handleRedirects runs: replaceState and reload when it redirects (the page is
\* loaded anew and the script will run again), else the page stays
RunHandleRedirects(classes, registered, atLoad) ==
    LET target == handleRedirects(pathname)
    IN  IF target # <<>> /\ redirectCount < MaxRedirects
        THEN /\ pathname' = target[1]
             /\ redirectCount' = redirectCount + 1
             /\ classList' = htmlClasses
             /\ listener' = FALSE
             /\ scriptRan' = FALSE
             /\ classAtLoad' = {}
             /\ pagePc' = "load"
        ELSE /\ classList' = classes
             /\ listener' = registered
             /\ scriptRan' = TRUE
             /\ classAtLoad' = atLoad
             /\ pagePc' = "ready"
             /\ UNCHANGED <<pathname, redirectCount>>

\* the script runs: applyTheme, the listener is registered when nothing is
\* stored, and handleRedirects runs now or waits for DOMContentLoaded
RunScript ==
    /\ pagePc = "load"
    /\ LET classes == applyTheme(classList, storedTheme, prefersDark)
           registered == NoStoredTheme(storedTheme)
       IN  \E loading \in BOOLEAN :
              IF loading
              THEN /\ classList' = classes
                   /\ listener' = registered
                   /\ scriptRan' = TRUE
                   /\ classAtLoad' = classes
                   /\ pagePc' = "waitDom"
                   /\ UNCHANGED <<pathname, redirectCount>>
              ELSE RunHandleRedirects(classes, registered, classes)
    /\ UNCHANGED <<storedTheme, prefersDark, htmlClasses, firstPathname>>
    /\ UNCHANGED <<hrefVars, exVars, slugVars, colVars, jsonVars, imgVars, mmVars,
                   fsVars, runVars>>

\* DOMContentLoaded: handleRedirects runs
DomContentLoaded ==
    /\ pagePc = "waitDom"
    /\ RunHandleRedirects(classList, listener, classAtLoad)
    /\ UNCHANGED <<storedTheme, prefersDark, htmlClasses, firstPathname>>
    /\ UNCHANGED <<hrefVars, exVars, slugVars, colVars, jsonVars, imgVars, mmVars,
                   fsVars, runVars>>

\* the system colour scheme changes; the listener runs when it is registered
SystemChange ==
    /\ pagePc \in {"load", "waitDom", "ready"}
    /\ prefersDark' = ~prefersDark
    /\ classList' = IF listener THEN OnChange(classList, ~prefersDark) ELSE classList
    /\ UNCHANGED <<storedTheme, htmlClasses, listener, scriptRan, classAtLoad, pathname,
                   firstPathname, redirectCount, pagePc>>
    /\ UNCHANGED <<hrefVars, exVars, slugVars, colVars, jsonVars, imgVars, mmVars,
                   fsVars, runVars>>

InitPage ==
    PageInit /\ ImgIdle /\ MmIdle /\ SlugIdle /\ ColIdle /\ JsonIdle /\ HrefIdle
    /\ ExIdle /\ RunIdle

NextPage ==
    \/ RunScript
    \/ DomContentLoaded
    \/ SystemChange

SpecPage == InitPage /\ [][NextPage]_vars

(***************************************************************************)
(* The MermaidRenderer components: the one with the isLoading and error    *)
(* state ("state") and the plain one ("plain").                            *)
(***************************************************************************)
diagramTypes ==
    {<<"g", "r", "a", "p", "h">>,
     <<"f", "l", "o", "w", "c", "h", "a", "r", "t">>,
     <<"s", "e", "q", "u", "e", "n", "c", "e", "D", "i", "a", "g", "r", "a", "m">>,
     <<"c", "l", "a", "s", "s", "D", "i", "a", "g", "r", "a", "m">>,
     <<"s", "t", "a", "t", "e", "D", "i", "a", "g", "r", "a", "m">>,
     <<"e", "r", "D", "i", "a", "g", "r", "a", "m">>,
     <<"j", "o", "u", "r", "n", "e", "y">>,
     <<"g", "a", "n", "t", "t">>,
     <<"p", "i", "e">>,
     <<"g", "i", "t", "g", "r", "a", "p", "h">>,
     <<"m", "i", "n", "d", "m", "a", "p">>,
     <<"t", "i", "m", "e", "l", "i", "n", "e">>,
     <<"b", "l", "o", "c", "k">>}

\* diagramTypes.some(type => cleanCode.toLowerCase().startsWith(type.toLowerCase()))
hasValidType(cleanCode) ==
    \E type \in diagramTypes : StartsWith(ToLowerCase(cleanCode), ToLowerCase(type))

\* mermaid.render resolves for a diagram it can parse and rejects otherwise; in
\* the model the text after the diagram type parses unless it holds a "!"
MermaidParses(text) == hasValidType(Trim(text)) /\ "!" \notin Range(text)

\* the code props of the model
cGraph == <<"g", "r", "a", "p", "h", " ", "T", "D">>
cPie == <<" ", "P", "i", "e", " ">>
cEmpty == <<>>
cBlank == <<" ", " ">>
cNoType == <<"f", "o", "o">>
cBadGraph == <<"g", "r", "a", "p", "h", " ", "!">>
Codes == {cGraph, cPie, cEmpty, cBlank, cNoType, cBadGraph}

MaxEffectRuns == 3

EmptyContainer == [kind |-> "empty", text |-> "", code |-> <<>>]
SvgOf(text) == [kind |-> "svg", text |-> "svg", code |-> text]
ErrorBox(message, c) == [kind |-> "error", text |-> message, code |-> c]

MmInit ==
    /\ mmVariant \in {"state", "plain"}
    /\ code \in Codes
    /\ isInitialized = FALSE
    /\ isLoading = (mmVariant = "state")
    /\ error = <<>>
    /\ innerHTML = EmptyContainer
    /\ pendingRenders = {}
    /\ effectRuns = 0

\* the catch of renderMermaid
RenderFailed(message, c) ==
    /\ error' = <<message>>
    /\ innerHTML' = ErrorBox(message, c)
    /\ isLoading' = FALSE

\* renderMermaid up to its await: the checks of the code, the container is
\* cleared and mermaid.render is called
renderMermaid(c) ==
    LET cleanCode == Trim(c)
    IN  IF cleanCode = <<>>
        THEN /\ RenderFailed("Empty diagram code provided", c)
             /\ UNCHANGED pendingRenders
        ELSE IF ~hasValidType(cleanCode)
        THEN /\ RenderFailed("Invalid diagram type", c)
             /\ UNCHANGED pendingRenders
        ELSE /\ isLoading' = TRUE
             /\ error' = <<>>
             /\ innerHTML' = EmptyContainer
             /\ pendingRenders' = pendingRenders \cup {[n |-> effectRuns + 1, code |-> c]}

\* renderDiagram up to its await: mermaid.render is called
renderDiagram(c) ==
    /\ pendingRenders' = pendingRenders \cup {[n |-> effectRuns + 1, code |-> c]}
    /\ UNCHANGED <<isLoading, error, innerHTML>>

\* the component is mounted: mermaid is initialized (state variant) and the
\* rendering effect runs for the first time
MmMount ==
    /\ mmVariant \in {"state", "plain"}
    /\ effectRuns = 0
    /\ effectRuns' = 1
    /\ IF mmVariant = "plain"
       THEN /\ renderDiagram(code)
            /\ UNCHANGED isInitialized
       ELSE \E initialized \in BOOLEAN :
              IF initialized
              THEN /\ isInitialized' = TRUE
                   /\ renderMermaid(code)
              ELSE /\ error' = <<"Failed to initialize Mermaid renderer">>
                   /\ isLoading' = FALSE
                   /\ UNCHANGED <<isInitialized, innerHTML, pendingRenders>>
    /\ UNCHANGED <<mmVariant, code>>
    /\ UNCHANGED <<hrefVars, exVars, slugVars, colVars, jsonVars, imgVars, pageVars,
                   fsVars, runVars>>

\* the code prop changes and the rendering effect runs again
MmCodeChange ==
    /\ effectRuns \in 1..(MaxEffectRuns - 1)
    /\ \E c \in Codes \ {code} :
          /\ code' = c
          /\ effectRuns' = effectRuns + 1
          /\ IF mmVariant = "plain" THEN renderDiagram(c)
             ELSE IF isInitialized THEN renderMermaid(c)
             ELSE UNCHANGED <<isLoading, error, innerHTML, pendingRenders>>
    /\ UNCHANGED <<mmVariant, isInitialized>>
    /\ UNCHANGED <<hrefVars, exVars, slugVars, colVars, jsonVars, imgVars, pageVars,
                   fsVars, runVars>>

\* a pending mermaid.render settles and the rest of its renderMermaid or
\* renderDiagram runs; the promises settle in any order
MmSettle ==
    /\ \E p \in pendingRenders :
          /\ pendingRenders' = pendingRenders \ {p}
          /\ IF mmVariant = "state"
             THEN IF MermaidParses(p.code)
                  THEN /\ innerHTML' = SvgOf(Trim(p.code))
                       /\ isLoading' = FALSE
                       /\ UNCHANGED error
                  ELSE RenderFailed("Parse error", p.code)
             ELSE /\ innerHTML' = IF MermaidParses(p.code) THEN SvgOf(p.code)
                                  ELSE ErrorBox("Parse error", p.code)
                  /\ UNCHANGED <<isLoading, error>>
    /\ UNCHANGED <<mmVariant, code, isInitialized, effectRuns>>
    /\ UNCHANGED <<hrefVars, exVars, slugVars, colVars, jsonVars, imgVars, pageVars,
                   fsVars, runVars>>

InitMermaid ==
    MmInit /\ ImgIdle /\ PageIdle /\ SlugIdle /\ ColIdle /\ JsonIdle /\ HrefIdle
    /\ ExIdle /\ RunIdle

NextMermaid ==
    \/ MmMount
    \/ MmCodeChange
    \/ MmSettle

SpecMermaid == InitMermaid /\ [][NextMermaid]_vars

(***************************************************************************)
(* The heading lines of a body, read off the text itself                   *)
(***************************************************************************)
\* line is 1 to 6 '#', then at least one whitespace character, then text
\* without line terminator (the pattern /^(#{1,6})\s+(.*)$/)
IsHeadingLine(line) ==
    \E h \in 1..6 : \E w \in 1..Len(line) :
        /\ Len(line) >= h + w
        /\ \A i \in 1..h : line[i] = "#"
        /\ \A i \in (h + 1)..(h + w) : IsSpace(line[i])
        /\ \A i \in (h + w + 1)..Len(line) : ~IsLineTerminator(line[i])

\* the lines of a body: the text between line breaks \n or \r\n
BodyLines(body) ==
    LET breaks == SelectSeq([i \in 1..Len(body) |-> i], LAMBDA i : body[i] = "\n")
        from(k) == IF k = 1 THEN 1 ELSE breaks[k - 1] + 1
        to(k) == IF k = Len(breaks) + 1 THEN Len(body)
                 ELSE IF breaks[k] > from(k) /\ body[breaks[k] - 1] = "\r"
                      THEN breaks[k] - 2 ELSE breaks[k] - 1
    IN  [k \in 1..(Len(breaks) + 1) |-> SubSeq(body, from(k), to(k))]

HeadingLines(body) == SelectSeq(BodyLines(body), IsHeadingLine)

\* level and title of a heading line
HeadingLevel(line) ==
    CHOOSE h \in 1..6 :
        /\ h <= Len(line)
        /\ \A i \in 1..h : line[i] = "#"
        /\ (Len(line) = h \/ line[h + 1] # "#")
HeadingTitle(line) == Trim(DropFirst(line, HeadingLevel(line)))

(***************************************************************************)
(* C9: for every document body, extractSectionsFromMdx returns exactly N   *)
(* sections, N the number of body lines that match the heading pattern; a  *)
(* body without heading line yields zero sections, and lines before the    *)
(* first heading create no section.                                        *)
(***************************************************************************)
C9_SectionCount ==
    exPc = "done" => Len(exOut) = Len(HeadingLines(exBody))

C9_Witness ==
    /\ exPc = "done"
    /\ Len(BodyLines(exBody)) = 4
    /\ ~IsHeadingLine(BodyLines(exBody)[1])
    /\ Len(HeadingLines(exBody)) = 2
    /\ Len(exOut) = 2

(***************************************************************************)
(* C10: the titles of the section of a level-L heading                     *)
(***************************************************************************)
\* the earlier headings of level k still in scope at heading j: no heading
\* of a level shallower than k lies between them and heading j
InScope(hs, j, k) ==
    { i \in 1..(j - 1) :
        /\ HeadingLevel(hs[i]) = k
        /\ \A m \in (i + 1)..(j - 1) : HeadingLevel(hs[m]) >= k }

SetMax(S) == CHOOSE x \in S : \A y \in S : y <= x

\* C10 (as claimed): titles has exactly L-1 entries and each entry k is the
\* title of an earlier heading of level k, for every heading sequence
C10_TitlesAreEarlierHeadings ==
    exPc = "done" =>
        LET hs == HeadingLines(exBody)
        IN  \A j \in DOMAIN exOut :
                /\ Len(exOut[j].titles) = HeadingLevel(hs[j]) - 1
                /\ \A k \in DOMAIN exOut[j].titles :
                     \E i \in 1..(j - 1) :
                        /\ HeadingLevel(hs[i]) = k
                        /\ exOut[j].titles[k] = Slot(HeadingTitle(hs[i]))

\* C10 (amended): titles has exactly L-1 entries; entry k is the title of
\* the last earlier heading of level k still in scope, and an unassigned
\* slot when there is none (the heading sequence skipped level k)
C10_Titles ==
    exPc = "done" =>
        LET hs == HeadingLines(exBody)
        IN  \A j \in DOMAIN exOut :
                /\ Len(exOut[j].titles) = HeadingLevel(hs[j]) - 1
                /\ \A k \in DOMAIN exOut[j].titles :
                     exOut[j].titles[k] =
                        IF InScope(hs, j, k) = {} THEN Hole
                        ELSE Slot(HeadingTitle(hs[SetMax(InScope(hs, j, k))]))

C10_Witness ==
    /\ exPc = "done"
    /\ Len(exOut) = 4
    /\ exOut[2].titles = << Slot(<<"A">>) >>
    /\ exOut[4].titles = << Slot(<<"D">>), Hole >>

(***************************************************************************)
(* C3 (as claimed): computeHref maps the root document docs/pages/index.mdx *)
(* (or index.md) to the base URL '/'.                                      *)
(***************************************************************************)
C3_RootIndexMapsToSlash ==
    (hrefPc = "done" /\ hrefPath \in {<<sIndexMdx>>, <<sIndexMd>>})
        => hrefOut = <<"/">>

(***************************************************************************)
(* C4: for a file at depth >= 1 below docs/pages, computeHref returns '/'  *)
(* followed by the relative path without its .md/.mdx extension, with the  *)
(* final segment removed when the file is named index.                     *)
(* HrefExpected computes that route on the path segments; isIndex tells    *)
(* whether the file counts as named index.                                 *)
(***************************************************************************)
HrefExpected(dirs, stem, isIndex) ==
    <<"/">> \o Join(IF isIndex THEN dirs ELSE dirs \o <<stem>>, <<"/">>)

HrefDeepCases ==
    { c \in [dirs : SeqsUpTo(HrefDirNames, MaxDepth), stem : HrefStems, ext : HrefExts] :
        /\ Len(c.dirs) >= 1
        /\ hrefPath = c.dirs \o <<c.stem \o c.ext>> }

\* C4 (as claimed): only the name index, spelled exactly so, is collapsed
C4_DeepHrefExactIndex ==
    hrefPc = "done" =>
        \A c \in HrefDeepCases :
            hrefOut = HrefExpected(c.dirs, c.stem, c.stem = sIndex)

\* C4 (amended): the name index in any letter case is collapsed
C4_DeepHref ==
    hrefPc = "done" =>
        \A c \in HrefDeepCases :
            hrefOut = HrefExpected(c.dirs, c.stem, ToLowerCase(c.stem) = sIndex)

C4_Witness ==
    /\ hrefPc = "done"
    /\ hrefPath = << <<"g","u","i","d","e">>, sIndexMdx >>
    /\ hrefOut = <<"/","g","u","i","d","e">>

(***************************************************************************)
(* Claims about one run of a script (specification Spec)                   *)
(***************************************************************************)
\* C1 (as claimed): in the index-patch pipeline no two records passed to the
\* search index have the same id, for every corpus, also when two files map
\* to the same base URL (a.mdx and a/index.mdx, a.md and a.mdx)
C1_UniqueIds ==
    (variant \in IndexPatchVariants /\ ReadyToIndex) =>
        \A i \in DOMAIN IndexInput : \A j \in DOMAIN IndexInput :
            i # j => IndexInput[i].id # IndexInput[j].id

\* C2 (as claimed): a section whose cleaned text is empty is dropped; no
\* record with empty text is among the documents passed to the search index
C2_NoEmptyText ==
    (variant \in IndexPatchVariants /\ ReadyToIndex) =>
        \A i \in DOMAIN IndexInput : IndexInput[i].text # <<>>

\* the base URL of a record: its href up to the first '#'
BaseUrl(href) ==
    LET hashes == { i \in DOMAIN href : href[i] = "#" }
    IN  IF hashes = {} THEN href
        ELSE SubSeq(href, 1, (CHOOSE i \in hashes : \A j \in hashes : i <= j) - 1)

\* positions of the records whose base URL is in the allow-list
KeptPositions == { i \in DOMAIN documents : BaseUrl(documents[i].href) \in allowedRoutes[1] }

\* the k-th smallest element of a set of numbers
Nth(S, k) == CHOOSE i \in S : Cardinality({ j \in S : j <= i }) = k

\* C5: in the route-filtering script, once a non-empty allow-list has been
\* derived, every record handed to the search index (and written) has its
\* base URL in the allow-list, every record with its base URL in the
\* allow-list is kept, and the records kept are the original ones, unaltered
\* and in their order
C5_RouteFilter ==
    (variant = "filter" /\ allowedRoutes # <<>> /\ allowedRoutes[1] # {}) =>
        /\ IndexInput = filteredDocuments
        /\ \A k \in DOMAIN filteredDocuments :
              BaseUrl(filteredDocuments[k].href) \in allowedRoutes[1]
        /\ Len(filteredDocuments) = Cardinality(KeptPositions)
        /\ \A k \in DOMAIN filteredDocuments :
              filteredDocuments[k] = documents[Nth(KeptPositions, k)]
        /\ \A w \in DOMAIN writes : writes[w].payload = filteredDocuments

C5_Witness ==
    /\ variant = "filter"
    /\ allowedRoutes = << { <<"/", "a">> } >>
    /\ pc = "exit" /\ exitCode = 0
    /\ Len(filteredDocuments) >= 1
    /\ Len(filteredDocuments) < Len(documents)

\* name is search-index-<anything>.json, letter case aside
MatchesIndexGlob(name) ==
    \E k \in 0..Len(name) :
        /\ Len(name) = Len(sSearchIndexDash) + k + Len(sDotJson)
        /\ SubSeq(ToLowerCase(name), 1, Len(sSearchIndexDash)) = sSearchIndexDash
        /\ SubSeq(ToLowerCase(name), Len(name) - Len(sDotJson) + 1, Len(name)) = sDotJson

\* the candidate directories a script looks into
CandidatesOf(v) ==
    IF v = "dist" THEN {"distVocsDir"}
    ELSE {"vercelPath0DistVocsDir", "vercelVocsDir", "distVocsDir"}

\* no candidate directory holds an index file: each is missing, unreadable
\* or lists no such file
NoIndexFileAnywhere ==
    \A d \in CandidatesOf(variant) :
        \/ listing[d].state # "ok"
        \/ \A i \in DOMAIN listing[d].items : ~MatchesIndexGlob(listing[d].items[i])

\* C6: in the index-patch scripts, if no candidate directory contains a file
\* named search-index-*.json, the run exits with a non-zero code before it
\* reads any document, and creates or modifies no file
C6_NoIndexIsFatal ==
    (variant \in IndexPatchVariants /\ NoIndexFileAnywhere /\ pc # "start") =>
        /\ pc = "exit"
        /\ exitCode # 0 /\ exitCode # -1
        /\ reads = 0
        /\ files = <<>>
        /\ writes = <<>>

C6_Witness ==
    /\ variant = "patch"
    /\ listing["vercelPath0DistVocsDir"] = dirMissing
    /\ listing["vercelVocsDir"] = dirUnreadable
    /\ listing["distVocsDir"] = dirNoIndex
    /\ Len(walkFiles(<<>>, tree, <<>>)) > 0
    /\ pc = "exit" /\ exitCode = 1

\* C7: if reading a document fails, the run (index-patch or JSON-array)
\* ends with a non-zero exit code and nothing is written; whenever a file
\* has been written, every document of the corpus was read without error
C7_ReadErrorAborts ==
    /\ readError => (pc = "exit" /\ exitCode # 0 /\ exitCode # -1 /\ writes = <<>>)
    /\ writes # <<>> => (~readError /\ reads = Len(files) /\ fileIdx = Len(files) + 1)

C7_Witness ==
    /\ readError
    /\ pc = "exit"
    /\ Len(files) = 2 /\ fileIdx = 2
    /\ Len(documents) > 0
    /\ writes = <<>>

\* the number of files with a Markdown name below a directory
RECURSIVE MarkdownCount(_)
MarkdownCount(entries) ==
    IF Len(entries) = 0 THEN 0
    ELSE (IF entries[1].isDirectory THEN MarkdownCount(entries[1].entries)
          ELSE IF IsMarkdownName(entries[1].name) THEN 1 ELSE 0)
         + MarkdownCount(Tail(entries))

\* C8: with zero Markdown files in the input directory, the JSON-array
\* script writes an empty array and exits 0; an index-patch script that
\* finds an index file writes an index of zero documents to every target
\* (the discovered directory, docs/dist/.vocs, .vercel/output/static/.vocs)
\* and exits 0
C8_EmptyCorpus ==
    (pc = "exit" /\ MarkdownCount(tree) = 0) =>
        /\ variant = "json" =>
              /\ exitCode = 0
              /\ writes = << [dir |-> "public", name |-> sIndexJson, payload |-> <<>>] >>
        /\ (variant \in IndexPatchVariants /\ ~NoIndexFileAnywhere) =>
              /\ exitCode = 0
              /\ { writes[w].dir : w \in DOMAIN writes }
                    = {baseDirForIndex, "distVocsDir", "vercelVocsDir"}
              /\ \A w \in DOMAIN writes :
                    writes[w].payload = <<>> /\ writes[w].name = fileName
              /\ MatchesIndexGlob(fileName)

C8_Witness ==
    /\ pc = "exit" /\ exitCode = 0
    /\ variant = "patch"
    /\ tree # <<>> /\ MarkdownCount(tree) = 0
    /\ baseDirForIndex = "vercelPath0DistVocsDir"
    /\ Len(writes) = 3

(***************************************************************************)
(* The records of the files read so far, located by the headings of the    *)
(* files: file k contributes one record per heading line of its body       *)
(***************************************************************************)
RECURSIVE HeadingsBefore(_, _)
HeadingsBefore(fs, k) ==
    IF k <= 1 THEN 0
    ELSE HeadingsBefore(fs, k - 1) + Len(HeadingLines(fs[k - 1].content))

\* the files whose records are in documents: those the loop has passed
FilesDone == 1..(fileIdx - 1)

\* C11: among the records of one document in the index-patch pipeline,
\* isPage is true for the record of the first section in source order and
\* false for every other record, so that a document with at least one
\* heading has exactly one isPage record
C11_OnePagePerDocument ==
    variant \in IndexPatchVariants =>
        \A k \in FilesDone :
            LET n == Len(HeadingLines(files[k].content))
                off == HeadingsBefore(files, k)
            IN  /\ Len(documents) >= off + n
                /\ \A i \in 1..n : documents[off + i].isPage = (i = 1)
                /\ n >= 1 => Cardinality({ i \in 1..n : documents[off + i].isPage }) = 1

C11_Witness ==
    /\ variant \in IndexPatchVariants
    /\ pc = "exit" /\ exitCode = 0
    /\ Len(files) = 2
    /\ Len(documents) = 3
    /\ documents[1].isPage /\ ~documents[2].isPage /\ documents[3].isPage

(***************************************************************************)
(* C12: slugify                                                            *)
(***************************************************************************)
\* the title with every '&' written out as the word and
WithAnd(t) ==
    LET piece(c) == IF c = "&" THEN <<"a", "n", "d">> ELSE <<c>>
        glue[i \in 0..Len(t)] == IF i = 0 THEN <<>> ELSE glue[i - 1] \o piece(t[i])
    IN  glue[Len(t)]

\* number of places where the word w begins in s
Occurrences(s, w) ==
    Cardinality({ i \in 1..(Len(s) - Len(w) + 1) : SubSeq(s, i, i + Len(w) - 1) = w })

\* C12: for every title the result of slugify contains only a-z, 0-9 and
\* '-', neither begins nor ends with '-', holds no two consecutive '-', has
\* every '&' of the title rendered as 'and', is the same on every call, and
\* is left unchanged by slugify
C12_Slugify ==
    slugPc = "done" =>
        /\ \A i \in DOMAIN slugOut :
              slugOut[i] \in Range(LowerLetters) \cup Range(Digits) \cup {"-"}
        /\ Len(slugOut) > 0 => (slugOut[1] # "-" /\ slugOut[Len(slugOut)] # "-")
        /\ \A i \in 1..(Len(slugOut) - 1) : ~(slugOut[i] = "-" /\ slugOut[i + 1] = "-")
        /\ Occurrences(slugOut, <<"a", "n", "d">>) = Occurrences(slugIn, <<"&">>)
        /\ slugOut = slugify(WithAnd(slugIn))
        /\ slugRepeat = slugOut
        /\ slugOfSlug = slugOut

C12_Witness ==
    /\ slugPc = "done"
    /\ slugIn = <<"&", " ", "-", "A">>
    /\ slugOut = <<"a", "n", "d", "-", "a">>
    /\ slugOfSlug = slugOut

(***************************************************************************)
(* C13: the allow-list derived from .vercel/output/static                  *)
(***************************************************************************)
\* the entries of the directory at path (a sequence of names) below entries
RECURSIVE EntriesAt(_, _)
EntriesAt(entries, path) ==
    IF Len(path) = 0 THEN entries
    ELSE LET hit == SelectSeq(entries, LAMBDA e : e.isDirectory /\ e.name = path[1])
         IN  IF Len(hit) = 0 THEN <<>> ELSE EntriesAt(hit[1].entries, Tail(path))

\* the paths of all directories below entries, the root (<<>>) included
RECURSIVE DirPaths(_)
DirPaths(entries) ==
    { <<>> } \cup UNION { { <<entries[i].name>> \o q : q \in DirPaths(entries[i].entries) } :
                            i \in { j \in DOMAIN entries : entries[j].isDirectory } }

\* the routes of the directories that directly hold a file index.html
IndexDirRoutes(entries) ==
    { <<"/">> \o Join(q, <<"/">>) :
        q \in { r \in DirPaths(entries) :
                  \E i \in DOMAIN EntriesAt(entries, r) :
                      /\ ~EntriesAt(entries, r)[i].isDirectory
                      /\ EntriesAt(entries, r)[i].name = sIndexHtml } }

\* the route-filtering script has derived its allow-list
RoutesDerived == variant = "filter" /\ (pc \in {"index", "write"} \/ exitCode = 0)

NonDocRoutes == { <<"/">>, <<"/", "4", "0", "4">> }

\* C13 (as claimed): when .vercel/output/static exists the allow-list holds
\* the route of every directory under it, itself included, that directly
\* contains an index.html, and no other route; the link declarations of
\* vocs.config.ts are used only when that directory does not exist
C13_AllowListFromStatic ==
    RoutesDerived =>
        /\ staticDir # <<>> => allowedRoutes = << IndexDirRoutes(staticDir[1]) >>
        /\ staticDir = <<>> =>
              allowedRoutes = IF vocsConfig # <<>> /\ LinkRoutes(vocsConfig[1]) # {}
                              THEN << LinkRoutes(vocsConfig[1]) >> ELSE <<>>

\* C13 (amended): as above, except that the routes '/' (the static directory
\* itself) and '/404' are never in the allow-list
C13_AllowList ==
    RoutesDerived =>
        /\ staticDir # <<>> =>
              allowedRoutes = << IndexDirRoutes(staticDir[1]) \ NonDocRoutes >>
        /\ staticDir = <<>> =>
              allowedRoutes = IF vocsConfig # <<>> /\ LinkRoutes(vocsConfig[1]) # {}
                              THEN << LinkRoutes(vocsConfig[1]) >> ELSE <<>>

C13_Witness ==
    /\ variant = "filter"
    /\ pc = "exit" /\ exitCode = 0
    /\ staticDir = <<staticNested>>
    /\ vocsConfig = <<sConfigText>>
    /\ allowedRoutes = << { <<"/", "b", "/", "c">> } >>

(***************************************************************************)
(* C14: the text of a section of the index-patch extractor                 *)
(***************************************************************************)
\* s holds a tag: a '<' with a '>' somewhere after it
HasTag(s) == \E i \in DOMAIN s : \E j \in DOMAIN s : i < j /\ s[i] = "<" /\ s[j] = ">"

\* C14 (as claimed): every section text is whitespace-collapsed and trimmed:
\* no leading or trailing whitespace, no newline, no run of two or more
\* whitespace characters, and no '<...>' tag
C14_TextCollapsed ==
    exPc = "done" =>
        \A k \in DOMAIN exOut :
            LET text == exOut[k].text
            IN  /\ Len(text) > 0 => (~IsSpace(text[1]) /\ ~IsSpace(text[Len(text)]))
                /\ \A i \in DOMAIN text : text[i] # "\n"
                /\ \A i \in 1..(Len(text) - 1) : ~(IsSpace(text[i]) /\ IsSpace(text[i + 1]))
                /\ ~HasTag(text)

(***************************************************************************)
(* C17: the content of a record of the JSON-array script                   *)
(***************************************************************************)
\* C17: every record of the JSON-array script has a content that is
\* non-empty and at most 3000 characters long, whatever the length of the
\* section it was derived from
C17_ContentCapped ==
    jsPc = "done" =>
        \A k \in DOMAIN jsRecords :
            /\ Len(jsRecords[k].content) >= 1
            /\ Len(jsRecords[k].content) <= ContentCap

C17_Witness ==
    /\ jsPc = "done"
    /\ Len(jsSections) = 2
    /\ Len(jsSections[2].text) > ContentCap
    /\ Len(jsRecords) = 2
    /\ Len(jsRecords[2].content) = ContentCap

(***************************************************************************)
(* C15: fenced text in the JSON-array script                               *)
(***************************************************************************)
\* the lines of a body: the text between the characters \n
LinesOf(body) ==
    LET breaks == SelectSeq([i \in 1..Len(body) |-> i], LAMBDA i : body[i] = "\n")
        from(k) == IF k = 1 THEN 1 ELSE breaks[k - 1] + 1
        to(k) == IF k = Len(breaks) + 1 THEN Len(body) ELSE breaks[k] - 1
    IN  [k \in 1..(Len(breaks) + 1) |-> SubSeq(body, from(k), to(k))]

IsFenceLine(line) == StartsWith(line, sBackticks)

\* line i lies between an opening fence and its closing fence: an odd number
\* of fence lines precedes it and a fence line follows it
IsFenced(lines, i) ==
    /\ ~IsFenceLine(lines[i])
    /\ Cardinality({ j \in 1..(i - 1) : IsFenceLine(lines[j]) }) % 2 = 1
    /\ \E j \in (i + 1)..Len(lines) : IsFenceLine(lines[j])

\* C15 (as claimed): text between an opening and a closing triple-backtick
\* fence never appears in the content of a record: when the character s
\* occurs in the body only on fenced lines, no content holds it, also when a
\* line starting with '## ' or '### ' stands inside the fenced block
C15_NoFencedText ==
    LET lines == LinesOf(jsFile.content)
    IN  ( /\ jsPc = "done"
          /\ \A i \in DOMAIN lines : "s" \in Range(lines[i]) => IsFenced(lines, i) )
        => \A k \in DOMAIN jsRecords : "s" \notin Range(jsRecords[k].content)

(***************************************************************************)
(* C16: the file collectors                                                *)
(***************************************************************************)
\* the paths of all non-directory entries below entries, at any depth
RECURSIVE FilePaths(_)
FilePaths(entries) ==
    { <<entries[i].name>> : i \in { j \in DOMAIN entries : ~entries[j].isDirectory } }
    \cup UNION { { <<entries[i].name>> \o q : q \in FilePaths(entries[i].entries) } :
                    i \in { j \in DOMAIN entries : entries[j].isDirectory } }

\* out holds exactly the paths of want, each once
ReturnsExactly(out, want) ==
    /\ { out[i].path : i \in DOMAIN out } = want
    /\ Len(out) = Cardinality(want)

\* the name ends in .md or .mdx, as spelled
EndsInMd(name) == EndsWith(name, sMd) \/ EndsWith(name, sMdx)

\* the name ends in .md or .mdx, letter case aside
EndsInMdAnyCase(name) == EndsInMd(ToLowerCase(name))

\* C16 (as claimed): each collector returns every non-directory entry whose
\* name ends in .md or .mdx exactly once, at any depth, no entry with
\* another name ending, and no directory
C16_CollectsMarkdown ==
    LET want == { p \in FilePaths(colTree) : EndsInMd(p[Len(p)]) }
    IN  /\ "walkFiles" \in colDone => ReturnsExactly(colWalk, want)
        /\ "getMarkdownFiles" \in colDone => ReturnsExactly(colGet, want)

\* C16 (amended): walkFiles takes the name ending in any letter case (.MD,
\* .Mdx), getMarkdownFiles only the lower-case endings .md and .mdx
C16_Collects ==
    /\ "walkFiles" \in colDone =>
          ReturnsExactly(colWalk, { p \in FilePaths(colTree) : EndsInMdAnyCase(p[Len(p)]) })
    /\ "getMarkdownFiles" \in colDone =>
          ReturnsExactly(colGet, { p \in FilePaths(colTree) : EndsInMd(p[Len(p)]) })

C16_Witness ==
    /\ colDone = {"walkFiles", "getMarkdownFiles"}
    /\ colTree = << Dir(<<"e", ".", "m", "d">>, << Dir(<<"d">>, << File(sAMd, NoFrontMatter) >>) >>),
                    File(<<"c", ".", "M", "D">>, NoFrontMatter) >>
    /\ Len(colWalk) = 2
    /\ Len(colGet) = 1
    /\ colGet[1].path = << <<"e", ".", "m", "d">>, <<"d">>, sAMd >>

(***************************************************************************)
(* C18: the order of the records of the index-patch pipeline               *)
(***************************************************************************)
\* the files of the tree with a Markdown name, in traversal order: the
\* entries of a directory in listing order, a subdirectory's files in the
\* place of the subdirectory
RECURSIVE TraversalOrder(_, _)
TraversalOrder(dir, entries) ==
    IF Len(entries) = 0 THEN <<>>
    ELSE (IF entries[1].isDirectory
          THEN TraversalOrder(Append(dir, entries[1].name), entries[1].entries)
          ELSE IF EndsInMdAnyCase(entries[1].name)
               THEN << [path |-> Append(dir, entries[1].name), content |-> entries[1].content] >>
               ELSE <<>>)
         \o TraversalOrder(dir, Tail(entries))

\* the records of the files read so far are those of the files in traversal
\* order: the records of file k are contiguous, one per heading line of the
\* file, in the order of the headings, with the positional suffixes 0, 1, ...
RecordsInOrder ==
    variant \in IndexPatchVariants =>
        LET order == TraversalOrder(<<>>, tree)
        IN  /\ Len(documents) = HeadingsBefore(files, fileIdx)
            /\ \A k \in FilesDone :
                  LET hs == HeadingLines(files[k].content)
                      off == HeadingsBefore(files, k)
                  IN  /\ files[k].path = order[k].path
                      /\ files[k].content = order[k].content
                      /\ \A i \in DOMAIN hs :
                            /\ documents[off + i].title = HeadingTitle(hs[i])
                            /\ EndsWith(documents[off + i].id,
                                        <<":", ":">> \o NatToString(i - 1))
                            /\ documents[off + i].id =
                                  documents[off + i].href \o <<":", ":">> \o NatToString(i - 1)

\* a step only appends to the record sequence
AppendOnly ==
    /\ Len(documents') >= Len(documents)
    /\ SubSeq(documents', 1, Len(documents)) = documents

\* C18: in the index-patch pipeline the record sequence is append-only and
\* order-preserving: the records of one document are contiguous and in the
\* order of their headings, with positional suffixes 0, 1, 2, ..., and the
\* documents appear in file-collector traversal order
C18_AppendOnlyInOrder == [][AppendOnly]_vars /\ []RecordsInOrder

C18_Witness ==
    /\ variant \in IndexPatchVariants
    /\ pc = "exit" /\ exitCode = 0
    /\ Len(files) = 2
    /\ Len(files[1].path) = 2
    /\ Len(documents) = 3
    /\ Len(HeadingLines(files[2].content)) = 2
    /\ EndsWith(documents[3].id, <<":", ":", "1">>)

(***************************************************************************)
(* C19: the sections of splitByHeadings                                    *)
(***************************************************************************)
\* the line is a heading of level 2 or 3: '##' or '###', then whitespace
IsSplitHeading(line) ==
    /\ Len(line) >= 3
    /\ line[1] = "#" /\ line[2] = "#"
    /\ \/ IsSpace(line[3])
       \/ Len(line) >= 4 /\ line[3] = "#" /\ IsSpace(line[4])

\* the text of such a heading: what follows the '#' characters, trimmed
SplitHeadingTitle(line) == Trim(DropFirst(line, IF line[3] = "#" THEN 3 ELSE 2))

\* block 0 is what precedes the first heading, block j what follows heading
\* j up to the next heading; each line of a block counts with its newline
BlockOf(lines, heads, j) ==
    LET first == IF j = 0 THEN 1 ELSE heads[j] + 1
        last == IF j = Len(heads) THEN Len(lines) ELSE heads[j + 1] - 1
    IN  [title |-> IF j = 0 THEN sIntroduction ELSE SplitHeadingTitle(lines[heads[j]]),
         text |-> IF first > last THEN <<>>
                  ELSE Join(SubSeq(lines, first, last), <<"\n">>) \o <<"\n">>]

IsBlank(text) == \A i \in DOMAIN text : IsSpace(text[i])

\* the sections the claim describes: the non-blank blocks, in order
ExpectedSections(body) ==
    LET lines == LinesOf(body)
        heads == SelectSeq([i \in 1..Len(lines) |-> i], LAMBDA i : IsSplitHeading(lines[i]))
        blocks == [j \in 1..(Len(heads) + 1) |-> BlockOf(lines, heads, j - 1)]
    IN  SelectSeq(blocks, LAMBDA b : ~IsBlank(b.text))

SplitHeadingCount(body) ==
    Cardinality({ i \in DOMAIN LinesOf(body) : IsSplitHeading(LinesOf(body)[i]) })

\* C19: in the JSON-array script the lines before the first '##' or '###'
\* heading form an implicit section titled Introduction; a document without
\* such a heading and with a non-blank body yields exactly one section; a
\* document with N such headings yields at most N + 1 sections, one per
\* heading or leading block whose accumulated raw text is non-blank
C19_ImplicitIntroduction ==
    jsPc \in {"split", "done"} =>
        /\ jsSections = ExpectedSections(jsFile.content)
        /\ Len(jsSections) <= SplitHeadingCount(jsFile.content) + 1
        /\ (SplitHeadingCount(jsFile.content) = 0 /\ ~IsBlank(jsFile.content)) =>
              /\ Len(jsSections) = 1
              /\ jsSections[1].title = sIntroduction

C19_Witness ==
    /\ jsPc = "split"
    /\ jsFile.content = <<"t", "\n", "#", "#", " ", "T", "\n", " ", "\n",
                          "#", "#", "#", " ", "U", " ">>
    /\ SplitHeadingCount(jsFile.content) = 2
    /\ Len(jsSections) = 1
    /\ jsSections[1] = [title |-> sIntroduction, text |-> <<"t", "\n">>]

(***************************************************************************)
(* C20: the index file found and the targets written                       *)
(***************************************************************************)
\* the candidate directories in the order the scripts try them
CandidateOrder == <<"vercelPath0DistVocsDir", "vercelVocsDir", "distVocsDir">>

\* the index files a candidate directory is seen to contain
IndexFilesIn(d) ==
    IF listing[d].state # "ok" THEN {}
    ELSE { listing[d].items[i] :
             i \in { j \in DOMAIN listing[d].items : MatchesIndexGlob(listing[d].items[j]) } }

\* the path of a candidate directory: /vercel/path0/docs/dist/.vocs is
\* docs/dist/.vocs for a script running in /vercel/path0
PathOf(d) ==
    IF d = "vercelPath0DistVocsDir" /\ cwd = "/vercel/path0" THEN "distVocsDir" ELSE d

FirstCandidate ==
    CHOOSE i \in DOMAIN CandidateOrder :
        /\ IndexFilesIn(CandidateOrder[i]) # {}
        /\ \A j \in 1..(i - 1) : IndexFilesIn(CandidateOrder[j]) = {}

\* C20: with candidate directories, the index file is taken from the first
\* candidate directory, in the order /vercel/path0/docs/dist/.vocs,
\* .vercel/output/static/.vocs, docs/dist/.vocs, that contains a
\* search-index-*.json file, and is the lexicographically first such file;
\* after a successful run the file of that name in the discovered
\* directory, in docs/dist/.vocs and in .vercel/output/static/.vocs hold the
\* same payload, and no target path is written twice
C20_FirstCandidateMirrored ==
    ( /\ variant \in {"patch", "filter"}
      /\ pc # "start"
      /\ \E i \in DOMAIN CandidateOrder : IndexFilesIn(CandidateOrder[i]) # {} )
    =>
        LET first == CandidateOrder[FirstCandidate]
            found == IndexFilesIn(first)
        IN  /\ baseDirForIndex = PathOf(first)
            /\ fileName \in found
            /\ \A n \in found : n = fileName \/ StrLess(fileName, n)
            /\ \A v \in DOMAIN writes : \A w \in DOMAIN writes :
                  v # w => writes[v].dir # writes[w].dir \/ writes[v].name # writes[w].name
            /\ exitCode = 0 =>
                  /\ \A d \in {baseDirForIndex, "distVocsDir", "vercelVocsDir"} :
                        \E w \in DOMAIN writes : writes[w].dir = d /\ writes[w].name = fileName
                  /\ \A w \in DOMAIN writes : writes[w].payload = writes[1].payload

C20_Witness ==
    /\ variant = "patch"
    /\ cwd = "/vercel/path0"
    /\ listing["vercelPath0DistVocsDir"] = dirIndex
    /\ pc = "exit" /\ exitCode = 0
    /\ baseDirForIndex = "distVocsDir"
    /\ fileName = dirIndex.items[3]
    /\ Len(writes) = 2
    /\ Len(writes[1].payload) > 0


(***************************************************************************)
(* The image upload script: what a run leaves in results, downloads and    *)
(* uploads.                                                                *)
(***************************************************************************)
InImageLoop == imgPc \in {"extract", "download", "validate", "upload"}

\* the entries of a log that were made for the URL at position i
LogOf(log, i) == { k \in DOMAIN log : log[k].idx = i }

\* C21: for every non-empty array of URLs in urls.json the run never aborts,
\* the results hold one entry per URL processed so far, in input order and
\* with originalUrl equal to that URL, a failed entry carries an error
\* message, and when the loop is over there is one entry for every URL and
\* the list printed is that list
C21_OneResultPerUrl ==
    (imgFile.kind = "array" /\ Len(imgFile.urls) > 0) =>
        /\ imgPc # "exit1"
        /\ imgPc # "read" => imgUrls = imgFile.urls
        /\ \A i \in DOMAIN imgResults :
              /\ i <= Len(imgFile.urls)
              /\ imgResults[i].originalUrl = imgFile.urls[i]
              /\ ~imgResults[i].success =>
                    ( /\ "error" \in DOMAIN imgResults[i]
                      /\ imgResults[i].error # "" )
        /\ InImageLoop => (imgIdx <= Len(imgUrls) /\ Len(imgResults) = imgIdx - 1)
        /\ imgPc \in {"print", "done"} => Len(imgResults) = Len(imgFile.urls)
        /\ imgPc = "done" => imgPrinted = <<imgResults>>

\* a run over two URLs ended: the first URL failed, the second was uploaded
C21_Witness ==
    /\ imgPc = "done"
    /\ Len(imgResults) = 2
    /\ ~imgResults[1].success
    /\ imgResults[2].success

\* the URLs of the model that extractDirectImageUrl returns
AcceptedUrls == { u \in ImgUrlSet : extractDirectImageUrl(u).ok }

ValidBuffer(b) ==
    /\ b.size <= MAX_FILE_SIZE
    /\ b.format \in ALLOWED_FORMATS
    /\ b.width <= MAX_WIDTH
    /\ b.height <= MAX_HEIGHT

\* the request made for the URL at position i returned a buffer
ReturnedBuffers(i) ==
    { imgDownloads[d].response.buffer : d \in
        { k \in LogOf(imgDownloads, i) :
            /\ imgDownloads[k].response.kind = "body"
            /\ imgDownloads[k].response.buffer.size <= MAX_FILE_SIZE } }

\* C22: an upload is started for a URL only when extractDirectImageUrl
\* accepted it, downloadImage returned the buffer that is uploaded and that
\* buffer is within the size limit, of an allowed format and within the
\* dimension limits; the stages run in this order, at most one upload is
\* started per URL, and a URL for which one of the three stages failed has
\* no upload and a result with success false
C22_UploadAfterValidation ==
    /\ imgPc = "download" => imgDirectUrl # <<>> /\ imgBuffer = <<>>
    /\ imgPc = "validate" =>
          /\ imgDirectUrl # <<>>
          /\ imgBuffer # <<>>
          /\ imgMetadata = <<>>
          /\ imgBuffer[1] \in ReturnedBuffers(imgIdx)
    /\ imgPc = "upload" =>
          /\ imgBuffer # <<>>
          /\ imgMetadata # <<>>
          /\ ValidBuffer(imgBuffer[1])
          /\ LogOf(imgUploads, imgIdx) = {}
    /\ \A k \in DOMAIN imgUploads :
          LET u == imgUploads[k]
          IN  /\ u.url = imgUrls[u.idx]
              /\ u.url \in AcceptedUrls
              /\ u.buffer \in ReturnedBuffers(u.idx)
              /\ ValidBuffer(u.buffer)
              /\ \A j \in DOMAIN imgUploads : imgUploads[j].idx = u.idx => j = k
    /\ \A i \in DOMAIN imgResults :
          LET failedEarly ==
                \/ imgUrls[i] \notin AcceptedUrls
                \/ ReturnedBuffers(i) = {}
                \/ \E b \in ReturnedBuffers(i) : ~ValidBuffer(b)
          IN  /\ failedEarly => (LogOf(imgUploads, i) = {} /\ ~imgResults[i].success)
              /\ imgResults[i].success => LogOf(imgUploads, i) # {}

\* the image at the limits (10 MiB, 4096 x 4096) was uploaded after an image
\* one pixel too wide was turned down
C22_Witness ==
    /\ Len(imgResults) = 2
    /\ ~imgResults[1].success
    /\ \E b \in ReturnedBuffers(1) : b.width = MAX_WIDTH + 1
    /\ imgResults[2].success
    /\ \E k \in DOMAIN imgUploads :
          /\ imgUploads[k].idx = 2
          /\ imgUploads[k].buffer.size = MAX_FILE_SIZE
          /\ imgUploads[k].buffer.width = MAX_WIDTH
          /\ imgUploads[k].buffer.height = MAX_HEIGHT

\* the host of a URL: what stands between "://" and the next "/", "?", "#" or
\* ":" (the URLs of the model carry no user information)
sSchemeSep == <<":", "/", "/">>
HostOf(url) ==
    LET at == FirstIndexOf(url, sSchemeSep, 1)
        rest == IF at = 0 THEN url ELSE SubSeq(url, at + 3, Len(url))
        stops == { i \in DOMAIN rest : rest[i] \in {"/", "?", "#", ":"} }
    IN  IF stops = {} THEN rest
        ELSE SubSeq(rest, 1, (CHOOSE i \in stops : \A j \in stops : i <= j) - 1)

GitHubHosted(url) ==
    \/ HostOf(url) \in {sUserImages, sPrivateUserImages}
    \/ (HostOf(url) = sGithubCom /\ Includes(url, sAssets))

GitHubHostedUrls == { u \in ImgUrlSet : GitHubHosted(u) }

\* C23: only URLs whose host is user-images.githubusercontent.com,
\* private-user-images.githubusercontent.com or github.com (with an
\* /assets/ path) are downloaded or uploaded; a URL on another host gets a
\* result with success false
C23_OnlyGitHubHosts ==
    /\ \A k \in DOMAIN imgDownloads : imgDownloads[k].url \in GitHubHostedUrls
    /\ \A k \in DOMAIN imgUploads : imgUploads[k].url \in GitHubHostedUrls
    /\ \A i \in DOMAIN imgResults :
          imgResults[i].originalUrl \notin GitHubHostedUrls => ~imgResults[i].success


\* the URL of the document of the JSON-array script, without a fragment
JsUrlBase == <<"/">> \o StripMdExtExact(normalizeSlashes(jsFile.path))

\* positions of the split sections whose cleaned text is not empty
JsKept == { i \in DOMAIN jsSections : extractTextFromMarkdown(jsSections[i].text) # <<>> }

\* C24 as stated: the first record pushed for a document has the bare base
\* URL and every later record a URL of the form base # anchor, also when the
\* first split section is skipped
C24_FirstRecordBare ==
    (jsPc = "done" /\ jsRecords # <<>>) =>
        /\ jsRecords[1].url = JsUrlBase
        /\ \A k \in 2..Len(jsRecords) :
              StartsWith(jsRecords[k].url, JsUrlBase \o <<"#">>)

\* C24: the records of a document are those of its split sections with a
\* non-empty cleaned text, in order; the record of the first split section
\* has the bare base URL and the record of every other section the URL
\* base # anchor of its title, so that no record has the bare URL when the
\* first split section is skipped
C24_BareUrlOfFirstSection ==
    jsPc = "done" =>
        /\ Len(jsRecords) = Cardinality(JsKept)
        /\ \A k \in DOMAIN jsRecords :
              LET i == Nth(JsKept, k)
              IN  jsRecords[k].url =
                     IF i = 1 THEN JsUrlBase
                     ELSE JsUrlBase \o <<"#">> \o UrlFragment(jsSections[i].title)
        /\ 1 \notin JsKept =>
              \A k \in DOMAIN jsRecords : StartsWith(jsRecords[k].url, JsUrlBase \o <<"#">>)

\* the first split section was skipped and a later one gave the first record
C24_Witness ==
    /\ jsPc = "done"
    /\ Len(jsSections) >= 2
    /\ 1 \notin JsKept
    /\ jsRecords # <<>>
    /\ jsRecords[1].url # JsUrlBase


(***************************************************************************)
(* The theme script: redirects and the theme class.                        *)
(***************************************************************************)
\* number of segments of a pathname
NumSegments(path) ==
    Cardinality({ i \in DOMAIN path : path[i] # "/" /\ (i = 1 \/ path[i - 1] = "/") })

\* the pathnames the handler leaves alone: the root, two or more segments,
\* and the single segments api, assets, logo and favicon.ico
NeverRedirected(path) ==
    \/ path = <<"/">>
    \/ NumSegments(path) >= 2
    \/ \E s \in {sApi, sAssetsName, sLogo, sFavicon} :
          path \in {<<"/">> \o s, <<"/">> \o s \o <<"/">>}

\* the single segment of a pathname /x or /x/
OnlySegment(path) ==
    IF path[Len(path)] = "/" THEN SubSeq(path, 2, Len(path) - 1)
    ELSE SubSeq(path, 2, Len(path))

\* C25: whatever the pathname of the first load, at most one redirect is
\* done; after a redirect the pathname is /intro/introduction,
\* /contribute/contributing or /<section>/overview and the handler does not
\* redirect it again; the root path, paths of two or more segments and the
\* single-segment paths api, assets, logo and favicon.ico are never
\* redirected
C25_NoRedirectLoop ==
    /\ redirectCount <= 1
    /\ redirectCount = 1 =>
          /\ NumSegments(firstPathname) = 1
          /\ pathname \in
                {<<"/">> \o sIntro \o <<"/">> \o sIntroductionPage,
                 <<"/">> \o sContribute \o <<"/">> \o sContributing,
                 <<"/">> \o OnlySegment(firstPathname) \o <<"/">> \o sOverview}
          /\ handleRedirects(pathname) = <<>>
    /\ NeverRedirected(firstPathname) =>
          (redirectCount = 0 /\ pathname = firstPathname)

\* /overview was redirected to /overview/overview and the script has run
\* again on the reloaded page
C25_Witness ==
    /\ firstPathname = <<"/">> \o sOverview
    /\ redirectCount = 1
    /\ pathname = <<"/">> \o sOverview \o <<"/">> \o sOverview
    /\ pagePc = "ready"

\* nothing usable is stored under vocs.theme: no value, or the empty string
NothingStored == storedTheme = <<>> \/ storedTheme = <<"">>

ExactlyOneThemeClass == Cardinality(classList \cap {"dark", "light"}) = 1

StoredThemeKeepsClass == (scriptRan /\ ~NothingStored) => classList = classAtLoad

ClassAtLoadRule ==
    (pagePc = "load" /\ scriptRan') =>
        ( ("dark" \in classList') <=>
          (storedTheme = <<"dark">> \/ (NothingStored /\ prefersDark)) )

\* C26: once the script has run the root element carries exactly one of the
\* classes dark and light, whatever change events follow; when the script
\* runs the class is dark exactly when the stored theme is 'dark', or
\* nothing is stored (no value or the empty string) and the system prefers
\* dark; and with a theme stored at load the class stays the one set at load
C26_ThemeClass ==
    /\ [](scriptRan => ExactlyOneThemeClass)
    /\ []StoredThemeKeepsClass
    /\ [][ClassAtLoadRule]_vars

\* nothing stored, the page shipped with class dark, the script set dark and
\* a change event has since set light
C26_Witness ==
    /\ scriptRan
    /\ storedTheme = <<>>
    /\ htmlClasses = {"dark"}
    /\ classAtLoad = {"dark"}
    /\ classList = {"light"}
    /\ listener


(***************************************************************************)
(* The MermaidRenderer components: what the container shows.               *)
(***************************************************************************)
\* the container shows the output of a render of the current code prop
ShowsCurrentCode ==
    /\ innerHTML.kind \in {"svg", "error"}
    /\ innerHTML.code = IF innerHTML.kind = "svg" /\ mmVariant = "state"
                        THEN Trim(code) ELSE code

\* C27: once no render is pending, the container shows the diagram or the
\* error box of the most recent code prop, whatever the order in which the
\* renders settled, and isLoading is false
C27_LatestCodeShown ==
    ( /\ effectRuns > 0
      /\ pendingRenders = {}
      /\ mmVariant = "state" => isInitialized )
    =>
        /\ ShowsCurrentCode
        /\ mmVariant = "state" => ~isLoading

====
